---------------------------- MODULE Spec2Model ----------------------------
(***************************************************************************)
(* ShardTalk: the blockchain-to-MongoDB mirror.                            *)
(*                                                                         *)
(*   - the messages collection, written by POST /api/messages and by the   *)
(*     sync script (scripts/sync-messages.js), read by GET /api/messages;  *)
(*   - the circuit breaker of lib/api/safe-fetch.ts;                       *)
(*   - the paging client MessagesApiClient.getAllMessages;                 *)
(*   - GET /api/totalmsg and GET /api/users, and the retry loop            *)
(*     saveToDatabase of contexts/ChatContext.tsx.                         *)
(*                                                                         *)
(* Strings that the code inspects (addresses, message content) are         *)
(* sequences of one-character strings; numbers are integers (all values    *)
(* stay far below 2^53, where Number(bigint) is exact).                    *)
(***************************************************************************)
EXTENDS Integers, Sequences, FiniteSets, TLC

(***************************************************************************)
(* Bounds of the model.                                                    *)
(***************************************************************************)
MaxLedger == 51          \* longest ledger
MaxPosts == 2            \* POST requests that reach the collection
MaxAppends == 1          \* messages the contract accepts during the run
MaxRuns == 2             \* invocations of the sync script
MaxNow == 80001          \* last clock value (ms)
MaxInFlight == 2         \* safeFetch calls awaiting their response at once
MaxDocs == 3             \* documents of the listed sender in a paged store
RaceLedger == 2          \* longest ledger two runs at once are given
MaxReadNow == 20000      \* last clock value (ms) while the database fails
MaxCallers == 2          \* requests of one process inside getMongoDb at once
MaxCalls == 2            \* calls of getMongoDb per request handler
MaxKeyNow == 60001       \* last clock value (ms) while two destinations are called

(***************************************************************************)
(* Program constants.                                                      *)
(***************************************************************************)
BATCH_SIZE == 50
ADDRESS_HEX_DIGITS == 40
MAX_LIMIT == 100
CIRCUIT_BREAKER_THRESHOLD == 3
CIRCUIT_BREAKER_TIMEOUT == 60000
FETCH_TIMEOUT == 10000
RETRIES == 3
BACKOFF_MS == 1000
SERVER_SELECTION_TIMEOUT == 10000
SOCKET_TIMEOUT == 45000

VARIABLES
    now,          \* Date.now(), ms
    store,        \* the messages collection: a set of documents
    nextOid,      \* the next _id the collection hands out
    ledger,       \* the contract's message log (append-only): its length
    appends,      \* messages the contract accepted so far
    sync,         \* the sync script's position and locals
    report,       \* the summary printed by the last completed sync run
    cleanRuns,    \* completed sync runs in a row with no other writer (history)
    runs,         \* sync invocations so far
    posts,        \* POST requests that reached the collection so far
    postResp,     \* the response to the last POST /api/messages
    last,         \* the last write applied to the collection (history)
    circuitBreakers, \* safe-fetch: Map<url, CircuitBreakerState>
    inflight,     \* safeFetch calls awaiting fetch()
    outcome,      \* what the last safeFetch event gave its caller
    hist,         \* per url: history the breaker itself does not keep
    pager,        \* MessagesApiClient.getAllMessages: its locals and result
    api,          \* the last request to an endpoint, and its response
    saver,        \* saveToDatabase: its locals, and what it has done so far
    syncers,      \* two runs of the sync script at once, and the server they write to
    mongo         \* lib/mongodb.ts: its module variables, and the calls of getMongoDb

syncVars == <<store, nextOid, ledger, appends, sync, report, cleanRuns, runs, posts, postResp, last>>
breakerVars == <<circuitBreakers, inflight, outcome, hist>>
clientVars == <<pager, api, saver, syncers, mongo>>
vars == <<now, syncVars, breakerVars, clientVars>>

(***************************************************************************)
(* Strings.                                                                *)
(***************************************************************************)
HexChars == {"0", "1", "a", "b", "c", "d", "e", "f", "A", "B", "C", "D", "E", "F"}

\* String.prototype.toLowerCase, one character
LowerChar(c) ==
    CASE c = "A" -> "a" [] c = "B" -> "b" [] c = "C" -> "c" [] c = "D" -> "d"
      [] c = "E" -> "e" [] c = "F" -> "f" [] c = "X" -> "x" [] c = "H" -> "h"
      [] OTHER -> c

ToLowerCase(s) == [i \in 1..Len(s) |-> LowerChar(s[i])]

\* mutant: the pattern without its end anchor
MatchesAddress_NoAnchor(s) ==
    /\ Len(s) >= 2 + ADDRESS_HEX_DIGITS
    /\ s[1] = "0"
    /\ s[2] = "x"
    /\ \A i \in 3..(2 + ADDRESS_HEX_DIGITS) : s[i] \in HexChars

\* /^0x[a-fA-F0-9]{40}$/
MatchesAddress(s) ==
    /\ Len(s) = 2 + ADDRESS_HEX_DIGITS
    /\ s[1] = "0"
    /\ s[2] = "x"
    /\ \A i \in 3..Len(s) : s[i] \in HexChars

RECURSIVE TrimStart(_)
TrimStart(s) == IF s # <<>> /\ Head(s) = " " THEN TrimStart(Tail(s)) ELSE s

RECURSIVE TrimEnd(_)
TrimEnd(s) ==
    IF s # <<>> /\ s[Len(s)] = " " THEN TrimEnd(SubSeq(s, 1, Len(s) - 1)) ELSE s

\* String.prototype.trim
Trim(s) == TrimEnd(TrimStart(s))

Hex(c) == <<"0", "x">> \o [i \in 1..ADDRESS_HEX_DIGITS |-> c]
AliceLower == Hex("a")
AliceMixed == <<"0", "x">> \o [i \in 1..ADDRESS_HEX_DIGITS |-> IF i % 2 = 1 THEN "A" ELSE "a"]
BobLower == Hex("b")
BobUpper == Hex("B")
BobMixed == <<"0", "x">> \o [i \in 1..ADDRESS_HEX_DIGITS |-> IF i % 2 = 1 THEN "B" ELSE "b"]
TrailingSpace == Hex("b") \o <<" ">>
ShortAddress == <<"0", "x">> \o [i \in 1..(ADDRESS_HEX_DIGITS - 1) |-> "a"]
UpperPrefix == <<"0", "X">> \o [i \in 1..ADDRESS_HEX_DIGITS |-> "a"]
NotAnAddress == <<"n", "o", "t", "-", "a", "n", "-", "a", "d", "d", "r", "e", "s", "s">>

(***************************************************************************)
(* JavaScript values of a request body, tagged with their typeof.          *)
(***************************************************************************)
Undefined == [t |-> "undefined", n |-> 0, s |-> <<>>]
Null == [t |-> "null", n |-> 0, s |-> <<>>]
Absent == [t |-> "absent", n |-> 0, s |-> <<>>]   \* a field a document does not have
Num(n) == [t |-> "number", n |-> n, s |-> <<>>]
Str(s) == [t |-> "string", n |-> 0, s |-> s]

\* !v
Falsy(v) ==
    \/ v.t \in {"undefined", "null"}
    \/ v.t = "number" /\ v.n = 0
    \/ v.t = "string" /\ v.s = <<>>


(***************************************************************************)
(* The messages collection.  A document is                                 *)
(*   [oid, messageId, sender, content, timestamp, transactionHash,         *)
(*    createdAt];                                                          *)
(* oid is MongoDB's _id.  A $set document has the same fields but oid,     *)
(* with transactionHash = Absent for a $set that does not name the field.  *)
(***************************************************************************)
Matching(coll, id) == {d \in coll : d.messageId = id}

\* { $set: set } applied to document d
\* mutant: the update replaces the document
ApplySet_Replace(d, set) ==
    [oid |-> d.oid,
     messageId |-> set.messageId,
     sender |-> set.sender,
     content |-> set.content,
     timestamp |-> set.timestamp,
     transactionHash |-> set.transactionHash,
     createdAt |-> set.createdAt]

ApplySet(d, set) ==
    [oid |-> d.oid,
     messageId |-> set.messageId,
     sender |-> set.sender,
     content |-> set.content,
     timestamp |-> set.timestamp,
     transactionHash |->
         IF set.transactionHash = Absent THEN d.transactionHash
         ELSE set.transactionHash,
     createdAt |-> set.createdAt]

\* the document an upsert inserts when nothing matches { messageId: id }
Upserted(oid, id, set) ==
    ApplySet([oid |-> oid, messageId |-> id, sender |-> <<>>, content |-> <<>>,
              timestamp |-> 0, transactionHash |-> Absent, createdAt |-> 0], set)

\* mutant: the upsert inserts without looking for a match
UpdateOne_AlwaysInsert(coll, oid, id, set) ==
    [coll |-> coll \cup {Upserted(oid, id, set)}, nextOid |-> oid + 1,
     matchedCount |-> 0, modifiedCount |-> 0, upsertedCount |-> 1]

\* mutant: every matched document is counted as modified
UpdateOne_CountsMatchAsModified(coll, oid, id, set) ==
    LET m == Matching(coll, id) IN
    IF m = {}
    THEN [coll |-> coll \cup {Upserted(oid, id, set)}, nextOid |-> oid + 1,
          matchedCount |-> 0, modifiedCount |-> 0, upsertedCount |-> 1]
    ELSE LET d == CHOOSE x \in m : \A y \in m : x.oid <= y.oid
         IN  [coll |-> (coll \ {d}) \cup {ApplySet(d, set)}, nextOid |-> oid,
              matchedCount |-> 1, modifiedCount |-> 1, upsertedCount |-> 0]

\* collection.updateOne({ messageId: id }, { $set: set }, { upsert: true })
UpdateOne(coll, oid, id, set) ==
    LET m == Matching(coll, id) IN
    IF m = {}
    THEN [coll |-> coll \cup {Upserted(oid, id, set)}, nextOid |-> oid + 1,
          matchedCount |-> 0, modifiedCount |-> 0, upsertedCount |-> 1]
    ELSE LET d == CHOOSE x \in m : \A y \in m : x.oid <= y.oid
             e == ApplySet(d, set)
         IN  [coll |-> (coll \ {d}) \cup {e}, nextOid |-> oid,
              matchedCount |-> 1,
              modifiedCount |-> IF e = d THEN 0 ELSE 1,
              upsertedCount |-> 0]

\* collection.bulkWrite(ops), ordered: ops[lo..hi] applied in order onto acc
\* (the range is halved, which keeps the order and the evaluation shallow)
RECURSIVE BulkWriteRange(_, _, _, _)
BulkWriteRange(acc, ops, lo, hi) ==
    IF lo > hi THEN acc
    ELSE IF lo = hi
    THEN LET r == UpdateOne(acc.coll, acc.nextOid, ops[lo].filter, ops[lo].set)
         IN  [coll |-> r.coll, nextOid |-> r.nextOid,
              matchedCount |-> acc.matchedCount + r.matchedCount,
              modifiedCount |-> acc.modifiedCount + r.modifiedCount,
              upsertedCount |-> acc.upsertedCount + r.upsertedCount]
    ELSE LET mid == (lo + hi) \div 2
             left == BulkWriteRange(acc, ops, lo, mid)
         IN  \* the test makes TLC evaluate the left half before the right one
             IF left.nextOid >= acc.nextOid
             THEN BulkWriteRange(left, ops, mid + 1, hi)
             ELSE left

\* the first k operations of ops applied (k = Len(ops): the whole bulk write)
BulkWrite(coll, oid, ops, k) ==
    BulkWriteRange([coll |-> coll, nextOid |-> oid, matchedCount |-> 0,
                    modifiedCount |-> 0, upsertedCount |-> 0], ops, 1, k)

\* collection.distinct('sender')
DistinctSenders(coll) == {d.sender : d \in coll}

(***************************************************************************)
(* The ledger (the chat contract).  Message i of the log is fixed once     *)
(* written; the contract returns checksummed (mixed-case) addresses.       *)
(***************************************************************************)
LedgerRecord(i) ==
    [messageId |-> i,
     sender |-> IF i % 2 = 0 THEN AliceMixed ELSE BobUpper,
     content |-> <<"h", "i">>,
     timestamp |-> 100 + (i \div 2)]

\* contract.getMessages(start, count)
GetMessages(start, count) == [j \in 1..count |-> LedgerRecord(start + j - 1)]

(***************************************************************************)
(* scripts/sync-messages.js                                                *)
(***************************************************************************)
\* mutant: the sender is stored as the contract returned it
SyncDoc_SenderAsIs(msg) ==
    [messageId |-> msg.messageId,
     sender |-> msg.sender,
     content |-> msg.content,
     timestamp |-> msg.timestamp,
     transactionHash |-> Absent,
     createdAt |-> msg.timestamp * 1000]

\* messageDoc of a ledger record
SyncDoc(msg) ==
    [messageId |-> msg.messageId,
     sender |-> ToLowerCase(msg.sender),
     content |-> msg.content,
     timestamp |-> msg.timestamp,
     transactionHash |-> Absent,
     createdAt |-> msg.timestamp * 1000]

\* bulkOps of a fetched batch
BulkOps(messages) ==
    [j \in 1..Len(messages) |->
        [filter |-> SyncDoc(messages[j]).messageId, set |-> SyncDoc(messages[j])]]

Min(a, b) == IF a < b THEN a ELSE b

NoReport == [total |-> -1, inserted |-> 0, updated |-> 0, unchanged |-> 0,
             senders |-> 0, afterClean |-> FALSE, clean |-> FALSE]

IdleSync == [pc |-> "idle", messageCount |-> 0, start |-> 0, syncedCount |-> 0,
             updatedCount |-> 0, skippedCount |-> 0, dirty |-> FALSE,
             grown |-> FALSE]

NoWrite == [op |-> "none", set |-> SyncDoc(LedgerRecord(0)), existed |-> FALSE,
            status |-> 0, unchanged |-> FALSE, start |-> 0, count |-> 0]

\* node scripts/sync-messages.js: getTotalMessageCount()
SyncStart ==
    /\ sync.pc = "idle"
    /\ runs < MaxRuns
    /\ runs' = runs + 1
    /\ \/ /\ ledger = 0
          /\ sync' = [IdleSync EXCEPT !.pc = "done"]
       \/ /\ ledger # 0
          /\ sync' = [IdleSync EXCEPT !.pc = "connect", !.messageCount = ledger]
       \/ sync' = [IdleSync EXCEPT !.pc = "failed"]      \* the RPC call throws
    /\ report' = NoReport
    /\ UNCHANGED <<now, breakerVars, clientVars, store, nextOid, ledger, appends, cleanRuns, posts, postResp, last>>

\* mongoClient.connect(), countDocuments()
SyncConnect ==
    /\ sync.pc = "connect"
    /\ \/ sync' = [sync EXCEPT !.pc = "batch", !.start = 0]
       \/ sync' = [sync EXCEPT !.pc = "failed"]          \* the connection fails
    /\ UNCHANGED <<now, breakerVars, clientVars, store, nextOid, ledger, appends, report, cleanRuns, runs, posts, postResp, last>>

\* mutant: the loop goes on while start <= messageCount
AfterBatch_OneMore(s, r) ==
    [s EXCEPT !.start = s.start + BATCH_SIZE,
              !.syncedCount = @ + r.upsertedCount,
              !.updatedCount = @ + r.modifiedCount,
              !.skippedCount = @ + (r.matchedCount - r.modifiedCount),
              !.pc = IF s.start + BATCH_SIZE <= s.messageCount THEN "batch" ELSE "summary"]

\* where the loop goes after the batch at sync.start
AfterBatch(s, r) ==
    [s EXCEPT !.start = s.start + BATCH_SIZE,
              !.syncedCount = @ + r.upsertedCount,
              !.updatedCount = @ + r.modifiedCount,
              !.skippedCount = @ + (r.matchedCount - r.modifiedCount),
              !.pc = IF s.start + BATCH_SIZE < s.messageCount THEN "batch" ELSE "summary"]

\* mutant: a batch that fails is skipped and the loop goes on
SyncBatch_SkipsFailedBatch ==
    /\ sync.pc = "batch"
    /\ LET count == Min(BATCH_SIZE, sync.messageCount - sync.start)
           ops == BulkOps(GetMessages(sync.start, count))
           none == [matchedCount |-> 0, modifiedCount |-> 0, upsertedCount |-> 0]
       IN  \/ /\ Len(ops) > 0
              /\ LET r == BulkWrite(store, nextOid, ops, Len(ops)) IN
                 /\ store' = r.coll
                 /\ nextOid' = r.nextOid
                 /\ sync' = AfterBatch(sync, r)
              /\ last' = [NoWrite EXCEPT !.op = "batch", !.start = sync.start,
                                         !.count = Len(ops)]
           \/ /\ sync' = AfterBatch(sync, none)
              /\ UNCHANGED <<store, nextOid, last>>
           \/ \E k \in {Len(ops) \div 2} :
              /\ LET r == BulkWrite(store, nextOid, ops, k) IN
                 /\ store' = r.coll
                 /\ nextOid' = r.nextOid
              /\ sync' = AfterBatch(sync, none)
              /\ last' = [NoWrite EXCEPT !.op = "batch", !.start = sync.start,
                                         !.count = k]
    /\ UNCHANGED <<now, breakerVars, clientVars, ledger, appends, report, cleanRuns, runs, posts, postResp>>

\* one turn of the loop: getMessages, bulkWrite
SyncBatch ==
    /\ sync.pc = "batch"
    /\ LET count == Min(BATCH_SIZE, sync.messageCount - sync.start)
           ops == BulkOps(GetMessages(sync.start, count))
       IN  \/ /\ Len(ops) > 0
              /\ LET r == BulkWrite(store, nextOid, ops, Len(ops)) IN
                 /\ store' = r.coll
                 /\ nextOid' = r.nextOid
                 /\ sync' = AfterBatch(sync, r)
              /\ last' = [NoWrite EXCEPT !.op = "batch", !.start = sync.start,
                                         !.count = Len(ops)]
           \/ /\ sync' = [sync EXCEPT !.pc = "failed"]   \* getMessages throws
              /\ UNCHANGED <<store, nextOid, last>>
           \/ \E k \in {Len(ops) \div 2} :              \* bulkWrite throws after k writes
              /\ LET r == BulkWrite(store, nextOid, ops, k) IN
                 /\ store' = r.coll
                 /\ nextOid' = r.nextOid
              /\ sync' = [sync EXCEPT !.pc = "failed"]
              /\ last' = [NoWrite EXCEPT !.op = "batch", !.start = sync.start,
                                         !.count = k]
    /\ UNCHANGED <<now, breakerVars, clientVars, ledger, appends, report, cleanRuns, runs, posts, postResp>>

\* the summary: the counts, distinct('sender')
SyncSummary ==
    /\ sync.pc = "summary"
    /\ \/ /\ sync' = [sync EXCEPT !.pc = "done"]
          /\ report' = [total |-> sync.messageCount,
                        inserted |-> sync.syncedCount,
                        updated |-> sync.updatedCount,
                        unchanged |-> sync.skippedCount,
                        senders |-> Cardinality(DistinctSenders(store)),
                        afterClean |-> cleanRuns >= 1 /\ ~sync.dirty /\ ~sync.grown,
                        clean |-> ~sync.dirty]
          /\ cleanRuns' = IF sync.dirty \/ sync.grown THEN 0 ELSE Min(cleanRuns + 1, 2)
       \/ /\ sync' = [sync EXCEPT !.pc = "failed"]       \* distinct throws
          /\ UNCHANGED <<report, cleanRuns>>
    /\ UNCHANGED <<now, breakerVars, clientVars, store, nextOid, ledger, appends, runs, posts, postResp, last>>

\* the process ends (return, or process.exit(1) from the catch block)
SyncExit ==
    /\ sync.pc \in {"done", "failed"}
    /\ sync' = [sync EXCEPT !.pc = "idle"]
    /\ UNCHANGED <<now, breakerVars, clientVars, store, nextOid, ledger, appends, report, cleanRuns, runs, posts, postResp, last>>

\* the contract accepts a message
LedgerAppend ==
    /\ ledger < MaxLedger
    /\ appends < MaxAppends
    /\ ledger' = ledger + 1
    /\ appends' = appends + 1
    /\ cleanRuns' = 0
    /\ sync' = [sync EXCEPT !.grown = TRUE]
    /\ UNCHANGED <<now, breakerVars, clientVars, store, nextOid, report, runs, posts, postResp, last>>


(***************************************************************************)
(* Two runs of scripts/sync-messages.js at once.  The server applies the   *)
(* operations of a bulk write one at a time, and an upsert in two steps:   *)
(* it looks for a document that matches the filter and, when there is      *)
(* none, inserts one.  Another client's write can fall between the two.    *)
(***************************************************************************)
Syncers == {1, 2}

\* unique: the collection has the unique index on messageId (the script
\* creates none; the web server and setup-indexes.js do).  retries: the
\* server runs an upsert again when its insert meets a duplicate key.
IdleSyncers ==
    [unique |-> FALSE, retries |-> FALSE,
     run |-> [r \in Syncers |-> [pc |-> "idle", messageCount |-> 0, j |-> 1]]]

\* the operation run r is at
SyncerOp(r) == BulkOps(GetMessages(0, syncers.run[r].messageCount))[syncers.run[r].j]

\* where a run goes once its operation j is applied
AfterOp(run) ==
    IF run.j < run.messageCount THEN [run EXCEPT !.pc = "match", !.j = @ + 1]
    ELSE [run EXCEPT !.pc = "done"]

\* getTotalMessageCount(), connect(), getMessages(0, count), bulkWrite(bulkOps)
SyncerStart ==
    \E r \in Syncers :
       /\ syncers.run[r].pc = "idle"
       /\ syncers' = [syncers EXCEPT !.run[r] = [pc |-> "match", messageCount |-> ledger, j |-> 1]]
       /\ UNCHANGED <<now, syncVars, breakerVars, pager, api, saver, mongo>>

\* the server looks for { messageId }: a match is updated in place
SyncerMatch ==
    \E r \in Syncers :
       /\ syncers.run[r].pc = "match"
       /\ IF Matching(store, SyncerOp(r).filter) = {}
          THEN /\ syncers' = [syncers EXCEPT !.run[r].pc = "insert"]
               /\ UNCHANGED <<store, nextOid>>
          ELSE LET u == UpdateOne(store, nextOid, SyncerOp(r).filter, SyncerOp(r).set) IN
               /\ store' = u.coll
               /\ nextOid' = u.nextOid
               /\ syncers' = [syncers EXCEPT !.run[r] = AfterOp(@)]
       /\ UNCHANGED <<now, breakerVars, pager, api, saver, mongo, ledger, appends, sync, report,
                      cleanRuns, runs, posts, postResp, last>>

\* the server inserts the document of the upsert; with the unique index a
\* document written in between makes the insert fail with E11000, which
\* the server answers by running the upsert again or by failing the bulk
\* write (the script's catch block then ends the process with exit code 1)
SyncerInsert ==
    \E r \in Syncers :
       /\ syncers.run[r].pc = "insert"
       /\ IF syncers.unique /\ Matching(store, SyncerOp(r).filter) # {}
          THEN /\ syncers' = [syncers EXCEPT !.run[r].pc =
                                 IF syncers.retries THEN "match" ELSE "failed"]
               /\ UNCHANGED <<store, nextOid>>
          ELSE /\ store' = store \cup {Upserted(nextOid, SyncerOp(r).filter, SyncerOp(r).set)}
               /\ nextOid' = nextOid + 1
               /\ syncers' = [syncers EXCEPT !.run[r] = AfterOp(@)]
       /\ UNCHANGED <<now, breakerVars, pager, api, saver, mongo, ledger, appends, sync, report,
                      cleanRuns, runs, posts, postResp, last>>

(***************************************************************************)
(* POST /api/messages                                                      *)
(***************************************************************************)
Body(id, sender, content, timestamp, hash) ==
    [kind |-> "object", messageId |-> id, sender |-> sender, content |-> content,
     timestamp |-> timestamp, transactionHash |-> hash]

\* request bodies: well-formed ones, and ones with a single defect
GoodBody == Body(Num(1), Str(BobUpper), Str(<<"h", "i">>), Num(100), Undefined)

AliceBody ==
    Body(Num(1), Str(AliceMixed), Str(<<" ", "h", "i", " ">>), Num(100), Str(<<"0", "x", "t">>))

ValidBodies == {GoodBody, AliceBody}

DefectiveBodies ==
    {[GoodBody EXCEPT !.messageId = v] : v \in {Undefined, Num(0), Str(<<"1">>)}}
    \cup {[GoodBody EXCEPT !.sender = v] :
            v \in {Undefined, Str(NotAnAddress), Str(ShortAddress), Str(UpperPrefix), Num(5),
                   Str(<<>>), Str(TrailingSpace)}}
    \cup {[GoodBody EXCEPT !.sender = Str(NotAnAddress), !.messageId = Undefined],
          [GoodBody EXCEPT !.sender = Str(NotAnAddress), !.timestamp = Num(0)]}
    \cup {[GoodBody EXCEPT !.content = v] : v \in {Undefined, Str(<<" ">>), Num(7)}}
    \cup {[GoodBody EXCEPT !.timestamp = v] : v \in {Undefined, Num(0), Num(-1), Str(<<"1">>)}}
    \cup {[GoodBody EXCEPT !.kind = "null"], [GoodBody EXCEPT !.kind = "badjson"]}

PostBodies == ValidBodies \cup DefectiveBodies

\* the requests sent while the sync script runs
MirrorBodies == ValidBodies

\* the status the handler answers before it touches the database; 0: none
PostRejection(body) ==
    IF body.kind = "badjson" THEN 400                \* request.json() throws
    ELSE IF body.kind = "null" THEN 500              \* destructuring null throws
    ELSE IF Falsy(body.messageId) \/ Falsy(body.sender)
            \/ Falsy(body.content) \/ Falsy(body.timestamp) THEN 400
    ELSE IF body.messageId.t # "number" THEN 400
    ELSE IF body.sender.t # "string" THEN 500        \* sender.match is not a function
    ELSE IF ~MatchesAddress(body.sender.s) THEN 400
    ELSE IF body.content.t # "string" \/ Len(Trim(body.content.s)) = 0 THEN 400
    ELSE IF body.timestamp.t # "number" \/ body.timestamp.n <= 0 THEN 400
    ELSE 0

\* messageDoc; the driver writes an undefined field as null
MessageDoc(body, date) ==
    [messageId |-> body.messageId.n,
     sender |-> ToLowerCase(body.sender.s),
     content |-> Trim(body.content.s),
     timestamp |-> body.timestamp.n,
     transactionHash |->
         IF body.transactionHash = Undefined THEN Null ELSE body.transactionHash,
     createdAt |-> date]

\* storage: the handler called getMongoDb for the request
Response(status, success, inserted, updated) ==
    [status |-> status, success |-> success, inserted |-> inserted, updated |-> updated,
     storage |-> FALSE]

\* a response made after the call of getMongoDb
Reached(response) == [response EXCEPT !.storage = TRUE]

NoResponse == Response(0, FALSE, FALSE, FALSE)

\* a write by another writer than the running sync
OtherWriter ==
    /\ cleanRuns' = 0
    /\ sync' = [sync EXCEPT !.dirty = TRUE]

\* mutant: a failed write is answered as a success
POST_WriteFailureIgnored(body, fault) ==
    LET rejected == PostRejection(body) IN
    IF rejected # 0
    THEN /\ postResp' = Response(rejected, FALSE, FALSE, FALSE)
         /\ UNCHANGED <<store, nextOid, posts, last, cleanRuns, sync>>
    ELSE IF fault = "connect"
    THEN /\ postResp' = Reached(Response(503, FALSE, FALSE, FALSE))
         /\ UNCHANGED <<store, nextOid, posts, last, cleanRuns, sync>>
    ELSE IF fault = "write"
    THEN /\ postResp' = Reached(Response(200, TRUE, TRUE, FALSE))
         /\ UNCHANGED <<store, nextOid, posts, last, cleanRuns, sync>>
    ELSE IF fault = "duplicate"                         \* updateOne throws, code 11000
    THEN /\ postResp' = Reached(Response(409, FALSE, FALSE, FALSE))
         /\ UNCHANGED <<store, nextOid, posts, last, cleanRuns, sync>>
    ELSE /\ posts < MaxPosts
         /\ posts' = posts + 1
         /\ LET doc == MessageDoc(body, now)
                result == UpdateOne(store, nextOid, body.messageId.n, doc)
            IN  /\ store' = result.coll
                /\ nextOid' = result.nextOid
                /\ postResp' = Reached(Response(200, TRUE, result.upsertedCount > 0,
                                                result.modifiedCount > 0))
                /\ last' = [NoWrite EXCEPT !.op = "post", !.set = doc,
                                           !.existed = result.matchedCount > 0,
                                           !.unchanged = result.matchedCount > result.modifiedCount,
                                           !.status = 200]
         /\ OtherWriter

\* the handler, for one request.  fault: what the database does to it.
\* (Error 11000 needs a concurrent insert of the same messageId between the
\* upsert's match and its insert; requests are applied one at a time here.)
POST(body, fault) ==
    LET rejected == PostRejection(body) IN
    IF rejected # 0
    THEN /\ postResp' = Response(rejected, FALSE, FALSE, FALSE)
         /\ UNCHANGED <<store, nextOid, posts, last, cleanRuns, sync>>
    ELSE IF fault \in {"connect", "write"}              \* getMongoDb / updateOne throws
    THEN /\ postResp' = Reached(Response(503, FALSE, FALSE, FALSE))
         /\ UNCHANGED <<store, nextOid, posts, last, cleanRuns, sync>>
    ELSE IF fault = "duplicate"                         \* updateOne throws, code 11000
    THEN /\ postResp' = Reached(Response(409, FALSE, FALSE, FALSE))
         /\ UNCHANGED <<store, nextOid, posts, last, cleanRuns, sync>>
    ELSE /\ posts < MaxPosts
         /\ posts' = posts + 1
         /\ LET doc == MessageDoc(body, now)
                result == UpdateOne(store, nextOid, body.messageId.n, doc)
            IN  /\ store' = result.coll
                /\ nextOid' = result.nextOid
                /\ postResp' = Reached(Response(200, TRUE, result.upsertedCount > 0,
                                                result.modifiedCount > 0))
                /\ last' = [NoWrite EXCEPT !.op = "post", !.set = doc,
                                           !.existed = result.matchedCount > 0,
                                           !.unchanged = result.matchedCount > result.modifiedCount,
                                           !.status = 200]
         /\ OtherWriter

PostFaults(body) ==
    IF PostRejection(body) # 0 THEN {"none"} ELSE {"none", "connect", "write"}

Post ==
    /\ \E body \in MirrorBodies : \E fault \in PostFaults(body) : POST(body, fault)
    /\ UNCHANGED <<now, breakerVars, clientVars, ledger, appends, report, runs>>

(***************************************************************************)
(* The clock.                                                              *)
(***************************************************************************)
TickSteps == {10000, 60000, 60001}

Tick ==
    /\ \E d \in TickSteps :
          /\ now + d <= MaxNow
          \* a pending fetch settles or is aborted by its timer first
          /\ \A c \in inflight : now + d - c.start <= FETCH_TIMEOUT
          /\ now' = now + d
    /\ UNCHANGED <<syncVars, breakerVars, clientVars>>

(***************************************************************************)
(* lib/api/safe-fetch.ts: the circuit breaker.                             *)
(***************************************************************************)
Urls == {"/api/users"}

NoBreakers == [u \in {} |-> 0]

\* getCircuitBreaker: the map, with an entry for url
getCircuitBreaker(breakers, url) ==
    IF url \in DOMAIN breakers THEN breakers
    ELSE [u \in DOMAIN breakers \cup {url} |->
             IF u = url THEN [failures |-> 0, lastFailureTime |-> 0, isOpen |-> FALSE]
             ELSE breakers[u]]

\* mutant: a failure is recorded on every breaker of the map
recordFailure_EveryKey(breakers, url, t) ==
    LET m == getCircuitBreaker(breakers, url)
    IN  [u \in DOMAIN m |->
            LET f == m[u].failures + 1
            IN  [failures |-> f, lastFailureTime |-> t,
                 isOpen |-> IF f >= CIRCUIT_BREAKER_THRESHOLD THEN TRUE ELSE m[u].isOpen]]

\* mutant: the circuit opens only above the threshold
recordFailure_AboveThreshold(breakers, url, t) ==
    LET m == getCircuitBreaker(breakers, url)
        f == m[url].failures + 1
    IN  [m EXCEPT ![url] = [failures |-> f, lastFailureTime |-> t,
                            isOpen |-> IF f > CIRCUIT_BREAKER_THRESHOLD THEN TRUE
                                       ELSE m[url].isOpen]]

\* mutant: a failure does not move the last-failure time
recordFailure_KeepsTime(breakers, url, t) ==
    LET m == getCircuitBreaker(breakers, url)
        f == m[url].failures + 1
    IN  [m EXCEPT ![url] = [failures |-> f, lastFailureTime |-> m[url].lastFailureTime,
                            isOpen |-> IF f >= CIRCUIT_BREAKER_THRESHOLD THEN TRUE
                                       ELSE m[url].isOpen]]

recordFailure(breakers, url, t) ==
    LET m == getCircuitBreaker(breakers, url)
        f == m[url].failures + 1
    IN  [m EXCEPT ![url] = [failures |-> f, lastFailureTime |-> t,
                            isOpen |-> IF f >= CIRCUIT_BREAKER_THRESHOLD THEN TRUE
                                       ELSE m[url].isOpen]]

\* mutant: a success clears the count and leaves the circuit as it was
recordSuccess_KeepsOpen(breakers, url) ==
    LET m == getCircuitBreaker(breakers, url)
    IN  [m EXCEPT ![url].failures = 0]

recordSuccess(breakers, url) ==
    LET m == getCircuitBreaker(breakers, url)
    IN  [m EXCEPT ![url] = [@ EXCEPT !.failures = 0, !.isOpen = FALSE]]

\* mutant: the cool-down ends at 60 s, not after it
shouldAllowRequest_AtTimeout(breakers, url, t) ==
    LET m == getCircuitBreaker(breakers, url) IN
    IF ~m[url].isOpen
    THEN [allow |-> TRUE, breakers |-> m, halfOpen |-> FALSE]
    ELSE IF t - m[url].lastFailureTime >= CIRCUIT_BREAKER_TIMEOUT
    THEN [allow |-> TRUE,
          breakers |-> [m EXCEPT ![url] = [@ EXCEPT !.isOpen = FALSE, !.failures = 0]],
          halfOpen |-> TRUE]
    ELSE [allow |-> FALSE, breakers |-> m, halfOpen |-> FALSE]

\* mutant: the cool-down branch closes the circuit but keeps the count
shouldAllowRequest_KeepsCount(breakers, url, t) ==
    LET m == getCircuitBreaker(breakers, url) IN
    IF ~m[url].isOpen
    THEN [allow |-> TRUE, breakers |-> m, halfOpen |-> FALSE]
    ELSE IF t - m[url].lastFailureTime > CIRCUIT_BREAKER_TIMEOUT
    THEN [allow |-> TRUE,
          breakers |-> [m EXCEPT ![url] = [@ EXCEPT !.isOpen = FALSE]],
          halfOpen |-> TRUE]
    ELSE [allow |-> FALSE, breakers |-> m, halfOpen |-> FALSE]

\* shouldAllowRequest: its answer, the map it leaves, and whether it took the
\* "half-open" branch
shouldAllowRequest(breakers, url, t) ==
    LET m == getCircuitBreaker(breakers, url) IN
    IF ~m[url].isOpen
    THEN [allow |-> TRUE, breakers |-> m, halfOpen |-> FALSE]
    ELSE IF t - m[url].lastFailureTime > CIRCUIT_BREAKER_TIMEOUT
    THEN [allow |-> TRUE,
          breakers |-> [m EXCEPT ![url] = [@ EXCEPT !.isOpen = FALSE, !.failures = 0]],
          halfOpen |-> TRUE]
    ELSE [allow |-> FALSE, breakers |-> m, halfOpen |-> FALSE]

\* response.ok
ResponseOk(status) == status >= 200 /\ status <= 299

Statuses == {200, 404, 500}

\* what the last safeFetch event gave its caller; probe: the call was let
\* through by the cool-down branch; recorded: recordFailure ran for it
Pending(url) ==
    [url |-> url, kind |-> "pending", status |-> 0, name |-> "", probe |-> FALSE,
     recorded |-> FALSE]
Returned(c, status, recorded) ==
    [url |-> c.url, kind |-> "response", status |-> status, name |-> "", probe |-> c.probe,
     recorded |-> recorded]
Thrown(c, name, recorded) ==
    [url |-> c.url, kind |-> "throw", status |-> 0, name |-> name, probe |-> c.probe,
     recorded |-> recorded]
\* mutant: the short-circuit throws what a failed fetch throws
CircuitOpen_AsTypeError(url) ==
    [url |-> url, kind |-> "throw", status |-> 0, name |-> "TypeError", probe |-> FALSE,
     recorded |-> FALSE]

\* new Error('Service temporarily unavailable. Circuit breaker is open.')
CircuitOpen(url) ==
    [url |-> url, kind |-> "throw", status |-> 0, name |-> "CircuitOpen", probe |-> FALSE,
     recorded |-> FALSE]
NoResult ==
    [url |-> "", kind |-> "none", status |-> 0, name |-> "", probe |-> FALSE,
     recorded |-> FALSE]

\* safeFetchJSON: what it returns for the outcome o of its safeFetch call
\* (parsed: response.json() resolves)
safeFetchJSON(o, parsed) ==
    IF o.kind = "throw" THEN Null
    ELSE IF ~ResponseOk(o.status) THEN Null
    ELSE IF ~parsed THEN Null
    ELSE [t |-> "json", n |-> o.status, s |-> <<>>]

\* history per url: failed, the failures recorded since the last successful
\* call (up to the threshold); run, those since the last successful call or
\* cool-down reset; opened, the circuit opened and no call has been let
\* through by the cool-down branch since
NoHist == [u \in Urls |-> [failed |-> 0, run |-> 0, opened |-> FALSE]]

HistFailure(url, m) ==
    [hist EXCEPT ![url] = [failed |-> Min(@.failed + 1, CIRCUIT_BREAKER_THRESHOLD),
                           run |-> Min(@.run + 1, CIRCUIT_BREAKER_THRESHOLD),
                           opened |-> @.opened \/ m[url].isOpen]]

FreeId == CHOOSE i \in 1..(MaxInFlight + 1) : \A c \in inflight : c.id # i

\* safeFetch(url), up to the await of fetch()
Begin(url) ==
    LET r == shouldAllowRequest(circuitBreakers, url, now) IN
    /\ circuitBreakers' = r.breakers
    /\ IF r.allow
       THEN /\ Cardinality(inflight) < MaxInFlight
            /\ inflight' = inflight \cup
                   {[id |-> FreeId, url |-> url, start |-> now, probe |-> r.halfOpen]}
            /\ outcome' = Pending(url)
            /\ hist' = IF r.halfOpen
                       THEN [hist EXCEPT ![url].opened = FALSE, ![url].run = 0]
                       ELSE hist
       ELSE /\ outcome' = CircuitOpen(url)
            /\ UNCHANGED <<inflight, hist>>

\* mutant: every response that is not ok counts as a failure
Respond_CountsClientErrors(c, status) ==
    /\ now - c.start <= FETCH_TIMEOUT
    /\ inflight' = inflight \ {c}
    /\ IF ResponseOk(status)
       THEN /\ circuitBreakers' = recordSuccess(circuitBreakers, c.url)
            /\ hist' = [hist EXCEPT ![c.url].failed = 0, ![c.url].run = 0]
            /\ outcome' = Returned(c, status, FALSE)
       ELSE /\ circuitBreakers' = recordFailure(circuitBreakers, c.url, now)
            /\ hist' = HistFailure(c.url, circuitBreakers')
            /\ outcome' = Returned(c, status, TRUE)

\* fetch() resolves for call c
Respond(c, status) ==
    /\ now - c.start <= FETCH_TIMEOUT
    /\ inflight' = inflight \ {c}
    /\ IF ResponseOk(status)
       THEN /\ circuitBreakers' = recordSuccess(circuitBreakers, c.url)
            /\ hist' = [hist EXCEPT ![c.url].failed = 0, ![c.url].run = 0]
            /\ outcome' = Returned(c, status, FALSE)
       ELSE IF status >= 500
       THEN /\ circuitBreakers' = recordFailure(circuitBreakers, c.url, now)
            /\ hist' = HistFailure(c.url, circuitBreakers')
            /\ outcome' = Returned(c, status, TRUE)
       ELSE /\ outcome' = Returned(c, status, FALSE)
            /\ UNCHANGED <<circuitBreakers, hist>>

\* fetch() rejects for call c with an error named name; safeFetch rethrows it
Reject(c, name) ==
    /\ inflight' = inflight \ {c}
    /\ IF name = "AbortError" \/ name = "TypeError"
       THEN /\ circuitBreakers' = recordFailure(circuitBreakers, c.url, now)
            /\ hist' = HistFailure(c.url, circuitBreakers')
            /\ outcome' = Thrown(c, name, TRUE)
       ELSE /\ outcome' = Thrown(c, name, FALSE)
            /\ UNCHANGED <<circuitBreakers, hist>>

\* the network fails: fetch rejects with a TypeError
NetworkError(c) ==
    /\ now - c.start <= FETCH_TIMEOUT
    /\ Reject(c, "TypeError")

\* AbortSignal.timeout(10000) fires.  The signal aborts with a DOMException
\* named TimeoutError, which fetch rejects with; runtimes that predate abort
\* reasons reject with an AbortError.
TimeoutNames == {"TimeoutError", "AbortError"}

Timeout(c, name) ==
    /\ now - c.start >= FETCH_TIMEOUT
    /\ Reject(c, name)

\* resetCircuitBreakers()
ResetCircuitBreakers ==
    /\ circuitBreakers' = NoBreakers
    /\ hist' = NoHist
    /\ outcome' = NoResult
    /\ UNCHANGED inflight

SafeFetchBegins == \E url \in Urls : Begin(url) /\ UNCHANGED <<now, syncVars, clientVars>>
FetchResponds ==
    \E c \in inflight, status \in Statuses : Respond(c, status) /\ UNCHANGED <<now, syncVars, clientVars>>
FetchFails == \E c \in inflight : NetworkError(c) /\ UNCHANGED <<now, syncVars, clientVars>>
FetchTimesOut ==
    \E c \in inflight, name \in TimeoutNames : Timeout(c, name) /\ UNCHANGED <<now, syncVars, clientVars>>
BreakersReset == ResetCircuitBreakers /\ UNCHANGED <<now, syncVars, clientVars>>

(***************************************************************************)
(* GET /api/messages                                                       *)
(***************************************************************************)
\* Math.ceil(a / b) for a >= 0, b > 0
CeilDiv(a, b) == (a + b - 1) \div b

\* mutant: the query has no filter
BySender_Everyone(coll, sender) == coll

\* find({ sender }): the documents of a sender
BySender(coll, sender) == {d \in coll : d.sender = sender}

\* sort({ timestamp: -1 }): the orders in which a query may return the set S.
\* Documents with equal timestamps have no defined relative order, and the
\* order may differ from one query to the next.
RECURSIVE Sorted(_)
Sorted(S) ==
    IF S = {} THEN {<<>>}
    ELSE UNION {{<<d>> \o q : q \in Sorted(S \ {d})} :
                  d \in {x \in S : \A y \in S : x.timestamp >= y.timestamp}}

\* skip(skip).limit(limit) of a sorted result
SkipLimit(q, skip, limit) == SubSeq(q, skip + 1, Min(skip + limit, Len(q)))

NoPagination == [page |-> 0, limit |-> 0, total |-> 0, totalPages |-> 0]

\* a JSON response: fields names the members the body has; storage: the
\* handler called getMongoDb for the request
Json(status, success, fields, address, messageCount, messages, pagination) ==
    [status |-> status, success |-> success, fields |-> fields, address |-> address,
     messageCount |-> messageCount, messages |-> messages, pagination |-> pagination,
     storage |-> FALSE]

GetFaults == {"none", "connect", "query"}

\* The handler, for the query q = [address, count, page, limit] (page and
\* limit as parseInt returned them), a storage fault, and the order in which
\* the sorted query returns the sender's documents.
GET(coll, q, fault, order) ==
    IF Len(q.address) = 0
    THEN Json(400, FALSE, {}, <<>>, 0, <<>>, NoPagination)
    ELSE IF ~MatchesAddress(q.address)
    THEN Json(400, FALSE, {"address"}, q.address, 0, <<>>, NoPagination)
    ELSE IF q.page < 1
    THEN Json(400, FALSE, {}, <<>>, 0, <<>>, NoPagination)
    ELSE IF q.limit < 1 \/ q.limit > MAX_LIMIT
    THEN Json(400, FALSE, {}, <<>>, 0, <<>>, NoPagination)
    ELSE LET normalizedAddress == ToLowerCase(q.address)
             total == Cardinality(BySender(coll, normalizedAddress))
         IN  Reached(
             IF fault = "connect"
             THEN Json(200, FALSE, {"address", "messageCount"}, normalizedAddress, 0,
                       <<>>, NoPagination)
             ELSE IF q.count
             THEN IF fault = "query"
                  THEN Json(200, FALSE, {"address", "messageCount"}, normalizedAddress, 0,
                            <<>>, NoPagination)
                  ELSE Json(200, TRUE, {"address", "messageCount"}, normalizedAddress,
                            total, <<>>, NoPagination)
             ELSE IF fault = "query"
             THEN Json(200, FALSE, {"address", "messages", "pagination"},
                       normalizedAddress, 0, <<>>,
                       [page |-> q.page, limit |-> q.limit, total |-> 0, totalPages |-> 0])
             ELSE Json(200, TRUE, {"address", "messages", "pagination"},
                       normalizedAddress, 0,
                       SkipLimit(order, (q.page - 1) * q.limit, q.limit),
                       [page |-> q.page, limit |-> q.limit, total |-> total,
                        totalPages |-> CeilDiv(total, q.limit)]))

(***************************************************************************)
(* GET /api/totalmsg/[address]                                             *)
(***************************************************************************)
TotalJson(status, success, address, totalMessages) ==
    [status |-> status, success |-> success, address |-> address,
     totalMessages |-> totalMessages, storage |-> FALSE]

\* mutant: a failed connection is answered 500
GETTotal_ConnectionError(coll, address, fault) ==
    IF Len(address) = 0
    THEN TotalJson(400, FALSE, <<"m", "i", "s", "s", "i", "n", "g">>, 0)
    ELSE IF ~MatchesAddress(address)
    THEN TotalJson(400, FALSE, address, 0)
    ELSE LET normalizedAddress == ToLowerCase(address) IN
         Reached(
             IF fault = "connect"
             THEN TotalJson(500, FALSE, normalizedAddress, 0)
             ELSE IF fault = "query"
             THEN TotalJson(200, FALSE, normalizedAddress, 0)
             ELSE TotalJson(200, TRUE, normalizedAddress,
                            Cardinality(BySender(coll, normalizedAddress))))

\* the handler, for the path parameter address and a storage fault
GETTotal(coll, address, fault) ==
    IF Len(address) = 0
    THEN TotalJson(400, FALSE, <<"m", "i", "s", "s", "i", "n", "g">>, 0)
    ELSE IF ~MatchesAddress(address)
    THEN TotalJson(400, FALSE, address, 0)
    ELSE LET normalizedAddress == ToLowerCase(address) IN
         Reached(
             IF fault \in {"connect", "query"}
             THEN TotalJson(200, FALSE, normalizedAddress, 0)
             ELSE TotalJson(200, TRUE, normalizedAddress,
                            Cardinality(BySender(coll, normalizedAddress))))

(***************************************************************************)
(* lib/api/messages-api.ts: getMessages and getAllMessages                 *)
(***************************************************************************)
\* the VerificationResult of getMessages
Failure(statusCode) == [success |-> FALSE, statusCode |-> statusCode,
                        data |-> Json(0, FALSE, {}, <<>>, 0, <<>>, NoPagination)]
Verified(data) == [success |-> TRUE, statusCode |-> data.status, data |-> data]

\* getMessages returns before it sends a request
ClientRejects(address, page, limit) ==
    \/ Len(address) = 0
    \/ ~MatchesAddress(address)
    \/ page < 1
    \/ limit < 1 \/ limit > MAX_LIMIT

\* getMessages once the server has answered with r
getMessages(address, r) ==
    IF ~ResponseOk(r.status) THEN Failure(r.status)
    ELSE IF ~({"address", "messages", "pagination"} \subseteq r.fields) THEN Failure(r.status)
    ELSE IF ToLowerCase(r.address) # ToLowerCase(address) THEN Failure(r.status)
    ELSE Verified(r)

IdlePager == [pc |-> "idle", address |-> <<>>, limit |-> 0, page |-> 0,
              allMessages |-> <<>>, total |-> 0, totalPages |-> 0,
              faulted |-> FALSE, success |-> FALSE]

PageAddresses == {BobUpper, ShortAddress}
PageLimits == {0, 1, 2, MAX_LIMIT, MAX_LIMIT + 1}

\* getAllMessages(address, limit), up to the loop
GetAllMessages ==
    /\ pager.pc = "idle"
    /\ \E address \in PageAddresses, limit \in PageLimits :
          pager' = [IdlePager EXCEPT !.pc = "loop", !.address = address,
                                     !.limit = limit, !.page = 1]
    /\ UNCHANGED <<now, syncVars, breakerVars, api, saver, syncers, mongo>>

\* one turn of the loop: getMessages(address, page, limit)
GetAllPage ==
    /\ pager.pc = "loop"
    /\ IF ClientRejects(pager.address, pager.page, pager.limit)
       THEN pager' = [pager EXCEPT !.pc = "failed"]
       ELSE \E fault \in GetFaults :
            \E order \in Sorted(BySender(store, ToLowerCase(pager.address))) :
               LET q == [address |-> pager.address, count |-> FALSE,
                         page |-> pager.page, limit |-> pager.limit]
                   result == getMessages(pager.address, GET(store, q, fault, order))
               IN  IF ~result.success
                   THEN pager' = [pager EXCEPT !.pc = "failed",
                                               !.faulted = @ \/ fault # "none"]
                   ELSE pager' =
                          [pager EXCEPT
                             !.allMessages = @ \o result.data.messages,
                             !.total = result.data.pagination.total,
                             !.totalPages = result.data.pagination.totalPages,
                             !.faulted = @ \/ fault # "none",
                             !.page = @ + 1,
                             !.pc = IF pager.page < result.data.pagination.totalPages
                                    THEN "loop" ELSE "last"]
    /\ UNCHANGED <<now, syncVars, breakerVars, api, saver, syncers, mongo>>

\* after the loop: getMessages(address, 1, 1), and the result
GetAllLast ==
    /\ pager.pc = "last"
    /\ \E fault \in GetFaults :
       \E order \in Sorted(BySender(store, ToLowerCase(pager.address))) :
          LET q == [address |-> pager.address, count |-> FALSE, page |-> 1, limit |-> 1]
              lastResult == getMessages(pager.address, GET(store, q, fault, order))
          IN  pager' = [pager EXCEPT !.pc = IF lastResult.success THEN "done" ELSE "failed",
                                     !.success = lastResult.success,
                                     !.faulted = @ \/ fault # "none"]
    /\ UNCHANGED <<now, syncVars, breakerVars, api, saver, syncers, mongo>>

\* a stored message of Bob
PageDoc(i, timestamp) ==
    Upserted(i, i, SyncDoc([messageId |-> i, sender |-> BobUpper,
                            content |-> <<"h", "i">>, timestamp |-> timestamp]))

\* a stored message of Alice
AliceDoc ==
    Upserted(MaxDocs + 1, MaxDocs + 1,
             SyncDoc([messageId |-> MaxDocs + 1, sender |-> AliceMixed,
                      content |-> <<"h", "i">>, timestamp |-> 101]))

PageTimestamps == {100, 101}

\* the stores that are paged: up to MaxDocs messages of Bob, and one of Alice
PageStores ==
    UNION {{{PageDoc(i, ts[i]) : i \in 1..n} \cup {AliceDoc} :
               ts \in [1..n -> PageTimestamps]} : n \in 0..MaxDocs}

(***************************************************************************)
(* Requests to the three endpoints, one at a time.                         *)
(***************************************************************************)
NoApi == [endpoint |-> "none", q |-> <<>>, fault |-> "none",
          resp |-> Json(0, FALSE, {}, <<>>, 0, <<>>, NoPagination)]

\* address strings of requests; <<>> is a missing or empty parameter
ApiAddresses ==
    {BobUpper, BobMixed, BobLower, ShortAddress, NotAnAddress, UpperPrefix, TrailingSpace, <<>>}

\* the queries of GET /api/messages: count mode with the default page and
\* limit, list mode with pages and limits in and out of range
ApiQueries ==
    {[address |-> a, count |-> TRUE, page |-> 1, limit |-> 20] : a \in ApiAddresses}
    \cup {[address |-> a, count |-> c, page |-> pg, limit |-> l] :
             a \in ApiAddresses, c \in BOOLEAN, pg \in {0, 1, 2},
             l \in {0, 1, MAX_LIMIT, MAX_LIMIT + 1}}

\* GET /api/messages?address=..&count=..&page=..&limit=..
GetMessagesRequest ==
    /\ api.endpoint = "none"
    /\ \E q \in ApiQueries, fault \in GetFaults :
       \E order \in Sorted(BySender(store, ToLowerCase(q.address))) :
          api' = [endpoint |-> "messages", q |-> q, fault |-> fault,
                  resp |-> GET(store, q, fault, order)]
    /\ UNCHANGED <<now, syncVars, breakerVars, pager, saver, syncers, mongo>>

\* GET /api/totalmsg/<address>
GetTotalRequest ==
    /\ api.endpoint = "none"
    /\ \E address \in ApiAddresses \ {<<>>}, fault \in GetFaults :
          api' = [endpoint |-> "totalmsg", q |-> [address |-> address], fault |-> fault,
                  resp |-> GETTotal(store, address, fault)]
    /\ UNCHANGED <<now, syncVars, breakerVars, pager, saver, syncers, mongo>>

ApiPostFaults(body) ==
    IF PostRejection(body) # 0 THEN {"none"} ELSE {"none", "connect", "write", "duplicate"}

\* POST /api/messages with any body; the response is postResp
PostRequest ==
    /\ api.endpoint = "none"
    /\ \E body \in PostBodies : \E fault \in ApiPostFaults(body) :
          /\ POST(body, fault)
          /\ api' = [NoApi EXCEPT !.endpoint = "post", !.q = body, !.fault = fault]
    /\ UNCHANGED <<now, breakerVars, pager, saver, syncers, mongo, ledger, appends, report, runs>>

\* the response has gone to the client; the next request can be served
ResponseSent ==
    /\ api.endpoint # "none"
    /\ api' = NoApi
    /\ UNCHANGED <<now, syncVars, breakerVars, pager, saver, syncers, mongo>>

(***************************************************************************)
(* GET /api/users, and safeFetch calls to the read endpoints while the     *)
(* database fails.                                                         *)
(***************************************************************************)
NaN == [t |-> "nan", n |-> 0, s |-> <<>>]

\* Math.max(1, parseInt(searchParams.get('page') || '0', 10)); digits tells
\* whether the parameter, when given, starts with a number
UsersPage(given, digits, n) ==
    IF ~given THEN Num(1)
    ELSE IF ~digits THEN NaN
    ELSE Num(IF n < 1 THEN 1 ELSE n)

UsersJson(status, failed, kind) == [status |-> status, error |-> failed, kind |-> kind]

\* GET of app/api/users/route.ts: by address, by username, or the list
GETUsers(address, username, page, fault) ==
    IF Len(address) > 0
    THEN UsersJson(200, fault # "none", "user")
    ELSE IF Len(username) > 0
    THEN UsersJson(200, fault # "none", "available")
    ELSE IF page.t = "number" /\ page.n > 0
    THEN UsersJson(200, fault # "none", "items")
    ELSE UsersJson(400, TRUE, "none")

ReadUrls == {"/api/messages", "/api/totalmsg", "/api/users"}

DbFaults == {"connect", "query"}

\* how long a failure of the database can take to reach the handler's catch
\* block: the driver gives up the connection after serverSelectionTimeoutMS,
\* a query after socketTimeoutMS
DbLatency(fault) == IF fault = "connect" THEN SERVER_SELECTION_TIMEOUT ELSE SOCKET_TIMEOUT

UsersQueries ==
    {[address |-> BobMixed, username |-> <<>>, page |-> UsersPage(FALSE, FALSE, 0)],
     [address |-> <<>>, username |-> <<"b", "o", "b">>, page |-> UsersPage(FALSE, FALSE, 0)],
     [address |-> <<>>, username |-> <<>>, page |-> UsersPage(FALSE, FALSE, 0)],
     [address |-> <<>>, username |-> <<>>, page |-> UsersPage(TRUE, TRUE, 0)],
     [address |-> <<>>, username |-> <<>>, page |-> UsersPage(TRUE, TRUE, 2)]}

\* the statuses the handler of url answers well-formed requests with
ReadStatuses(url, fault) ==
    IF url = "/api/messages"
    THEN {GET(store, q, fault, <<>>).status :
             q \in {x \in ApiQueries : MatchesAddress(x.address) /\ x.page >= 1
                                       /\ x.limit >= 1 /\ x.limit <= MAX_LIMIT}}
    ELSE IF url = "/api/totalmsg"
    THEN {GETTotal(store, a, fault).status : a \in {x \in ApiAddresses : MatchesAddress(x)}}
    ELSE {GETUsers(q.address, q.username, q.page, fault).status : q \in UsersQueries}

ReadBegins == \E url \in ReadUrls : Begin(url) /\ UNCHANGED <<now, syncVars, clientVars>>

\* the handler's answer arrives before the abort
ReadResponds ==
    \E c \in inflight, fault \in DbFaults :
       \E status \in ReadStatuses(c.url, fault) :
          Respond(c, status) /\ UNCHANGED <<now, syncVars, clientVars>>

\* the failure takes the driver's whole timeout to show: the abort is first
ReadTimesOut ==
    \E c \in inflight, fault \in DbFaults, name \in TimeoutNames :
       /\ DbLatency(fault) >= FETCH_TIMEOUT
       /\ Timeout(c, name)
       /\ UNCHANGED <<now, syncVars, clientVars>>

\* the clock, in steps of the fetch timeout
ReadTick ==
    /\ now + FETCH_TIMEOUT <= MaxReadNow
    /\ \A c \in inflight : now + FETCH_TIMEOUT - c.start <= FETCH_TIMEOUT
    /\ now' = now + FETCH_TIMEOUT
    /\ UNCHANGED <<syncVars, breakerVars, clientVars>>

(***************************************************************************)
(* lib/api/messages-api.ts: getMessageCount and hasMessages                *)
(***************************************************************************)
\* getMessageCount for address, once the server has answered its request
\* (address, count=true) with r; an address that fails the format test is
\* answered without a request
getMessageCount(address, r) ==
    IF Len(address) = 0 \/ ~MatchesAddress(address) THEN Failure(0)
    ELSE IF ~ResponseOk(r.status) THEN Failure(r.status)
    ELSE IF ~({"address", "messageCount"} \subseteq r.fields) THEN Failure(r.status)
    ELSE IF ToLowerCase(r.address) # ToLowerCase(address) THEN Failure(r.status)
    ELSE Verified(r)

\* hasMessages, from the result of its getMessageCount call
hasMessages(result) == result.success /\ result.data.messageCount > 0

(***************************************************************************)
(* safeFetch for two destinations: one path, two query strings.            *)
(***************************************************************************)
KeyUrls == {"/api/users?address=0xa", "/api/users?address=0xb"}

NoKeyHist == [u \in KeyUrls |-> [failed |-> 0, run |-> 0, opened |-> FALSE]]

KeyBegins == \E url \in KeyUrls : Begin(url) /\ UNCHANGED <<now, syncVars, clientVars>>

\* resetCircuitBreakers()
KeysReset ==
    /\ circuitBreakers # NoBreakers
    /\ circuitBreakers' = NoBreakers
    /\ hist' = NoKeyHist
    /\ outcome' = NoResult
    /\ UNCHANGED <<inflight, now, syncVars, clientVars>>

\* the clock: just past the cool-down, when no fetch is pending
KeyTick ==
    /\ now + CIRCUIT_BREAKER_TIMEOUT + 1 <= MaxKeyNow
    /\ inflight = {}
    /\ now' = now + CIRCUIT_BREAKER_TIMEOUT + 1
    /\ UNCHANGED <<syncVars, breakerVars, clientVars>>

(***************************************************************************)
(* GET /api/messages: the query string as the client sent it.              *)
(***************************************************************************)
Digits == <<"0", "1", "2", "3", "4", "5", "6", "7", "8", "9">>

IsDigit(c) == \E k \in 1..10 : Digits[k] = c

DigitValue(c) == (CHOOSE k \in 1..10 : Digits[k] = c) - 1

\* the number the leading digits of s spell, after acc
RECURSIVE LeadingDigits(_, _)
LeadingDigits(s, acc) ==
    IF s # <<>> /\ IsDigit(Head(s))
    THEN LeadingDigits(Tail(s), 10 * acc + DigitValue(Head(s)))
    ELSE acc

\* parseInt(s): white space, a sign, then the longest run of digits; NaN
\* when there is none
ParseInt(s) ==
    LET t == TrimStart(s)
        signed == t # <<>> /\ Head(t) \in {"-", "+"}
        body == IF signed THEN Tail(t) ELSE t
    IN  IF body = <<>> \/ ~IsDigit(Head(body)) THEN NaN
        ELSE Num((IF signed /\ Head(t) = "-" THEN -1 ELSE 1) * LeadingDigits(body, 0))

\* searchParams.get(name) || fallback, for a parameter given as raw (Null
\* when the query string has none)
ParamOr(raw, fallback) == IF Falsy(raw) THEN fallback ELSE raw.s

\* The handler for the query string raw = [address, count, page, limit],
\* page and limit as sent.  NaN fails neither page < 1 nor the test of the
\* limit; the list query is then sent with skip NaN, which the server
\* refuses (the response shows the NaN members, null in JSON, as 0).
GETQuery(coll, raw, fault, order) ==
    LET page == ParseInt(ParamOr(raw.page, <<"1">>))
        limit == ParseInt(ParamOr(raw.limit, <<"2", "0">>))
        q == [address |-> raw.address, count |-> raw.count,
              page |-> IF page = NaN THEN 1 ELSE page.n,
              limit |-> IF limit = NaN THEN 1 ELSE limit.n]
        asNumbers == GET(coll, q, fault, order)
    IN  IF page # NaN /\ limit # NaN THEN asNumbers
        ELSE IF asNumbers.status = 400 \/ raw.count \/ fault = "connect" THEN asNumbers
        ELSE [GET(coll, q, "query", order) EXCEPT
                 !.pagination.page = IF page = NaN THEN 0 ELSE page.n,
                 !.pagination.limit = IF limit = NaN THEN 0 ELSE limit.n]

RawNumbers ==
    {Null, Str(<<>>), Str(<<"0">>), Str(<<"1">>), Str(<<"2">>), Str(<<"-", "1">>),
     Str(<<"1", "0", "0">>), Str(<<"1", "0", "1">>), Str(<<"a", "b", "c">>),
     Str(<<"1", ".", "5">>), Str(<<"2", "x">>)}

RawQueries ==
    [address : {BobMixed, ShortAddress}, count : BOOLEAN, page : RawNumbers, limit : RawNumbers]

\* GET /api/messages?address=..&count=..&page=..&limit=.., any query string
GetQueryRequest ==
    /\ api.endpoint = "none"
    /\ \E raw \in RawQueries, fault \in GetFaults :
       \E order \in Sorted(BySender(store, ToLowerCase(raw.address))) :
          api' = [endpoint |-> "messages", q |-> raw, fault |-> fault,
                  resp |-> GETQuery(store, raw, fault, order)]
    /\ UNCHANGED <<now, syncVars, breakerVars, pager, saver, syncers, mongo>>

(***************************************************************************)
(* contexts/ChatContext.tsx: saveToDatabase                                *)
(***************************************************************************)
\* Math.pow(2, i)
RECURSIVE Pow2(_)
Pow2(i) == IF i = 0 THEN 1 ELSE 2 * Pow2(i - 1)

\* mutant: every back-off lasts one second
Backoff_Flat(i) == BACKOFF_MS

\* Math.pow(2, i) * 1000
Backoff(i) == Pow2(i) * BACKOFF_MS

\* the path saveToDatabase posts to
SaveUrl == "/api/messages"

\* outcomes: what each attempt met, as [status, success, thrown]; delays: the
\* timers set so far; result: "none" until the function returns
IdleSaver == [pc |-> "idle", i |-> 0, body |-> GoodBody, outcomes |-> <<>>,
              delays |-> <<>>, result |-> "none"]

\* what reaches the caller of fetch other than the handler's answer: the
\* network fails (fetch rejects), or a gateway answers 502 with a body that
\* is not JSON (response.json() rejects)
SaveNetworkFaults == {"network", "gateway"}

Met(status, success, thrown) == [status |-> status, success |-> success, thrown |-> thrown]

\* mutant: the loop goes on after a saved message
AfterAttempt_NoReturn(sv, met) ==
    LET seen == [sv EXCEPT !.outcomes = Append(@, met)] IN
    IF sv.i < RETRIES - 1
    THEN [seen EXCEPT !.pc = "wait", !.delays = Append(@, Backoff(sv.i))]
    ELSE [seen EXCEPT !.pc = "done", !.i = sv.i + 1,
                      !.result = IF ResponseOk(met.status) /\ met.success THEN "true"
                                 ELSE "false"]

\* the rest of a turn of the loop once the attempt has met its outcome
AfterAttempt(sv, met) ==
    LET seen == [sv EXCEPT !.outcomes = Append(@, met)] IN
    IF ~met.thrown /\ ResponseOk(met.status) /\ met.success
    THEN [seen EXCEPT !.pc = "done", !.result = "true"]
    ELSE IF sv.i < RETRIES - 1
    THEN [seen EXCEPT !.pc = "wait", !.delays = Append(@, Backoff(sv.i))]
    ELSE [seen EXCEPT !.pc = "done", !.i = sv.i + 1, !.result = "false"]

\* saveToDatabase(), up to the first fetch
SaveStart ==
    /\ saver.pc = "idle"
    /\ \E body \in ValidBodies : saver' = [IdleSaver EXCEPT !.pc = "attempt", !.body = body]
    /\ UNCHANGED <<now, syncVars, breakerVars, pager, api, syncers, mongo>>

\* mutant: the attempt is made with safeFetch
SaveAttempt_ThroughBreaker ==
    /\ saver.pc = "attempt"
    /\ LET gate == shouldAllowRequest(circuitBreakers, SaveUrl, now) IN
       IF ~gate.allow
       THEN /\ saver' = AfterAttempt(saver, Met(0, FALSE, TRUE))
            /\ circuitBreakers' = gate.breakers
            /\ UNCHANGED <<store, nextOid, posts, postResp, last, cleanRuns, sync>>
       ELSE \/ \E fault \in ApiPostFaults(saver.body) :
                 /\ POST(saver.body, fault)
                 /\ saver' = AfterAttempt(saver, Met(postResp'.status, postResp'.success, FALSE))
                 /\ circuitBreakers' =
                        IF ResponseOk(postResp'.status) THEN recordSuccess(gate.breakers, SaveUrl)
                        ELSE IF postResp'.status >= 500
                        THEN recordFailure(gate.breakers, SaveUrl, now)
                        ELSE gate.breakers
            \/ /\ saver' = AfterAttempt(saver, Met(0, FALSE, TRUE))
               /\ circuitBreakers' = recordFailure(gate.breakers, SaveUrl, now)
               /\ UNCHANGED <<store, nextOid, posts, postResp, last, cleanRuns, sync>>
    /\ UNCHANGED <<now, inflight, outcome, hist, pager, api, syncers, mongo, ledger, appends, report, runs>>

\* one attempt: fetch('/api/messages', POST), response.json(), the test
SaveAttempt ==
    /\ saver.pc = "attempt"
    /\ \/ \E fault \in ApiPostFaults(saver.body) :
             /\ POST(saver.body, fault)
             /\ saver' = AfterAttempt(saver, Met(postResp'.status, postResp'.success, FALSE))
       \/ /\ saver' = AfterAttempt(saver, Met(0, FALSE, TRUE))          \* fetch rejects
          /\ UNCHANGED <<store, nextOid, posts, postResp, last, cleanRuns, sync>>
       \/ /\ saver' = AfterAttempt(saver, Met(502, FALSE, TRUE))        \* json() rejects
          /\ UNCHANGED <<store, nextOid, posts, postResp, last, cleanRuns, sync>>
    /\ UNCHANGED <<now, breakerVars, pager, api, syncers, mongo, ledger, appends, report, runs>>

\* the timer of the back-off fires
SaveWait ==
    /\ saver.pc = "wait"
    /\ now' = now + saver.delays[Len(saver.delays)]
    /\ saver' = [saver EXCEPT !.pc = "attempt", !.i = @ + 1]
    /\ UNCHANGED <<syncVars, breakerVars, pager, api, syncers, mongo>>

(***************************************************************************)
(* lib/mongodb.ts: the connection cache.                                   *)
(***************************************************************************)
\* requests of one process that call getMongoDb
Callers == 1..MaxCallers

\* the module before any call: nothing cached, no client constructed.  A
\* client is named by the order of its construction, its Db handle likewise;
\* 0 is null.
NoMongo ==
    [cachedClient |-> 0, cachedDb |-> 0, indexesCreated |-> FALSE,
     clients |-> 0, failed |-> {}, indexRuns |-> 0,
     call |-> [c \in Callers |-> [pc |-> "idle", client |-> 0, db |-> 0, calls |-> 0]]]

\* getMongoDb up to its await: the cached Db if both are cached, else a new
\* MongoClient whose connect() is awaited
GetMongoDbCalled(c) ==
    /\ mongo.call[c].pc = "idle"
    /\ mongo.call[c].calls < MaxCalls
    /\ IF mongo.cachedClient # 0 /\ mongo.cachedDb # 0
       THEN mongo' = [mongo EXCEPT !.call[c] = [pc |-> "returned", client |-> 0,
                                                db |-> mongo.cachedDb, calls |-> @.calls + 1]]
       ELSE mongo' = [mongo EXCEPT !.clients = @ + 1,
                                   !.call[c] = [pc |-> "connecting", client |-> mongo.clients + 1,
                                                db |-> 0, calls |-> @.calls + 1]]
    /\ UNCHANGED <<now, syncVars, breakerVars, pager, api, saver, syncers>>

\* connect() resolved: the client and its Db are cached, the indexes are
\* created on the first such return, the Db is returned
ConnectResolved(c) ==
    /\ mongo.call[c].pc = "connecting"
    /\ mongo' = [mongo EXCEPT !.cachedClient = mongo.call[c].client,
                              !.cachedDb = mongo.call[c].client,
                              !.indexesCreated = TRUE,
                              !.indexRuns = IF mongo.indexesCreated THEN @ ELSE @ + 1,
                              !.call[c].pc = "returned",
                              !.call[c].db = mongo.call[c].client]
    /\ UNCHANGED <<now, syncVars, breakerVars, pager, api, saver, syncers>>

\* connect() rejected: getMongoDb throws from its await
ConnectRejected(c) ==
    /\ mongo.call[c].pc = "connecting"
    /\ mongo' = [mongo EXCEPT !.failed = @ \cup {mongo.call[c].client},
                              !.call[c].pc = "threw"]
    /\ UNCHANGED <<now, syncVars, breakerVars, pager, api, saver, syncers>>

\* the request is over; the same handler serves the next one
CallerDone(c) ==
    /\ mongo.call[c].pc \in {"returned", "threw"}
    /\ mongo.call[c].calls < MaxCalls
    /\ mongo' = [mongo EXCEPT !.call[c].pc = "idle", !.call[c].client = 0, !.call[c].db = 0]
    /\ UNCHANGED <<now, syncVars, breakerVars, pager, api, saver, syncers>>

GetMongoDbCalls == \E c \in Callers : GetMongoDbCalled(c)
ConnectResolves == \E c \in Callers : ConnectResolved(c)
ConnectRejects == \E c \in Callers : ConnectRejected(c)
CallerReturns == \E c \in Callers : CallerDone(c)

(***************************************************************************)
(* The mirror: the sync script, POST /api/messages and the ledger.         *)
(***************************************************************************)
\* the variables of the mirror, before anything ran
InitSyncVars ==
    /\ store = {}
    /\ nextOid = 1
    /\ ledger \in {0, BATCH_SIZE}
    /\ appends = 0
    /\ sync = IdleSync
    /\ report = NoReport
    /\ cleanRuns = 0
    /\ runs = 0
    /\ posts = 0
    /\ postResp = NoResponse
    /\ last = NoWrite

InitBreakerVars ==
    /\ circuitBreakers = NoBreakers
    /\ inflight = {}
    /\ outcome = NoResult
    /\ hist = NoHist

InitSync ==
    /\ now = 0
    /\ InitSyncVars
    /\ InitBreakerVars
    /\ pager = IdlePager
    /\ api = NoApi
    /\ saver = IdleSaver
    /\ syncers = IdleSyncers
    /\ mongo = NoMongo

NextSync ==
    \/ SyncStart
    \/ SyncConnect
    \/ SyncBatch
    \/ SyncSummary
    \/ SyncExit
    \/ LedgerAppend
    \/ Post

SpecSync == InitSync /\ [][NextSync]_vars


(***************************************************************************)
(* The circuit breaker under concurrent safeFetch calls and the clock.     *)
(***************************************************************************)
InitBreaker ==
    /\ now = 0
    /\ InitSyncVars
    /\ ledger = 0
    /\ InitBreakerVars
    /\ pager = IdlePager
    /\ api = NoApi
    /\ saver = IdleSaver
    /\ syncers = IdleSyncers
    /\ mongo = NoMongo

NextBreaker ==
    \/ SafeFetchBegins
    \/ FetchResponds
    \/ FetchFails
    \/ FetchTimesOut
    \/ BreakersReset
    \/ Tick

SpecBreaker == InitBreaker /\ [][NextBreaker]_vars

(***************************************************************************)
(* Paging through a fixed store with getAllMessages.                       *)
(***************************************************************************)
InitPage ==
    /\ now = 0
    /\ store \in PageStores
    /\ nextOid = MaxDocs + 2
    /\ ledger = 0
    /\ appends = 0
    /\ sync = IdleSync
    /\ report = NoReport
    /\ cleanRuns = 0
    /\ runs = 0
    /\ posts = 0
    /\ postResp = NoResponse
    /\ last = NoWrite
    /\ InitBreakerVars
    /\ pager = IdlePager
    /\ api = NoApi
    /\ saver = IdleSaver
    /\ syncers = IdleSyncers
    /\ mongo = NoMongo

NextPage ==
    \/ GetAllMessages
    \/ GetAllPage
    \/ GetAllLast

SpecPage == InitPage /\ [][NextPage]_vars

(***************************************************************************)
(* The endpoints, request by request, over a store with Bob's messages.    *)
(***************************************************************************)
ApiStores == {{AliceDoc}, {PageDoc(1, 100), PageDoc(2, 101), AliceDoc}}

InitApi ==
    /\ now = 0
    /\ store \in ApiStores
    /\ nextOid = MaxDocs + 2
    /\ ledger = 0
    /\ appends = 0
    /\ sync = IdleSync
    /\ report = NoReport
    /\ cleanRuns = 0
    /\ runs = 0
    /\ posts = 0
    /\ postResp = NoResponse
    /\ last = NoWrite
    /\ InitBreakerVars
    /\ pager = IdlePager
    /\ api = NoApi
    /\ saver = IdleSaver
    /\ syncers = IdleSyncers
    /\ mongo = NoMongo

NextApi ==
    \/ GetMessagesRequest
    \/ GetTotalRequest
    \/ PostRequest
    \/ ResponseSent

SpecApi == InitApi /\ [][NextApi]_vars

(***************************************************************************)
(* saveToDatabase against the handler, with a breaker state left by        *)
(* earlier safeFetch calls to the same path.                               *)
(***************************************************************************)
\* the breaker of the path after three failed safeFetch calls at time 0
OpenBreaker ==
    recordFailure(recordFailure(recordFailure(NoBreakers, SaveUrl, 0), SaveUrl, 0), SaveUrl, 0)

InitSave ==
    /\ now = 0
    /\ store = {}
    /\ nextOid = 1
    /\ ledger = 0
    /\ appends = 0
    /\ sync = IdleSync
    /\ report = NoReport
    /\ cleanRuns = 0
    /\ runs = 0
    /\ posts = 0
    /\ postResp = NoResponse
    /\ last = NoWrite
    /\ circuitBreakers \in {NoBreakers, OpenBreaker}
    /\ inflight = {}
    /\ outcome = NoResult
    /\ hist = NoHist
    /\ pager = IdlePager
    /\ api = NoApi
    /\ saver = IdleSaver
    /\ syncers = IdleSyncers
    /\ mongo = NoMongo

NextSave ==
    \/ SaveStart
    \/ SaveAttempt
    \/ SaveWait

SpecSave == InitSave /\ [][NextSave]_vars

(***************************************************************************)
(* GET /api/messages with any query string.                                *)
(***************************************************************************)
InitQuery ==
    /\ now = 0
    /\ store = {PageDoc(1, 100), PageDoc(2, 101), AliceDoc}
    /\ nextOid = MaxDocs + 2
    /\ ledger = 0
    /\ appends = 0
    /\ sync = IdleSync
    /\ report = NoReport
    /\ cleanRuns = 0
    /\ runs = 0
    /\ posts = 0
    /\ postResp = NoResponse
    /\ last = NoWrite
    /\ InitBreakerVars
    /\ pager = IdlePager
    /\ api = NoApi
    /\ saver = IdleSaver
    /\ syncers = IdleSyncers
    /\ mongo = NoMongo

NextQuery == GetQueryRequest

SpecQuery == InitQuery /\ [][NextQuery]_vars

(***************************************************************************)
(* safeFetch calls to the read endpoints of a server whose database fails. *)
(***************************************************************************)
InitRead ==
    /\ now = 0
    /\ InitSyncVars
    /\ ledger = 0
    /\ circuitBreakers = NoBreakers
    /\ inflight = {}
    /\ outcome = NoResult
    /\ hist = [u \in ReadUrls |-> [failed |-> 0, run |-> 0, opened |-> FALSE]]
    /\ pager = IdlePager
    /\ api = NoApi
    /\ saver = IdleSaver
    /\ syncers = IdleSyncers
    /\ mongo = NoMongo

NextRead ==
    \/ ReadBegins
    \/ ReadResponds
    \/ ReadTimesOut
    \/ ReadTick

SpecRead == InitRead /\ [][NextRead]_vars

(***************************************************************************)
(* Two runs of the sync script against one ledger and one store.           *)
(***************************************************************************)
InitRace ==
    /\ now = 0
    /\ store = {}
    /\ nextOid = 1
    /\ ledger \in 1..RaceLedger
    /\ appends = 0
    /\ sync = IdleSync
    /\ report = NoReport
    /\ cleanRuns = 0
    /\ runs = 0
    /\ posts = 0
    /\ postResp = NoResponse
    /\ last = NoWrite
    /\ InitBreakerVars
    /\ pager = IdlePager
    /\ api = NoApi
    /\ saver = IdleSaver
    /\ \E unique \in BOOLEAN, retries \in BOOLEAN :
          /\ ~unique => ~retries
          /\ syncers = [IdleSyncers EXCEPT !.unique = unique, !.retries = retries]
    /\ mongo = NoMongo

NextRace ==
    \/ SyncerStart
    \/ SyncerMatch
    \/ SyncerInsert

SpecRace == InitRace /\ [][NextRace]_vars

(***************************************************************************)
(* Requests of one process that share the connection cache.                *)
(***************************************************************************)
InitConnect ==
    /\ now = 0
    /\ store = {}
    /\ nextOid = 1
    /\ ledger = 0
    /\ appends = 0
    /\ sync = IdleSync
    /\ report = NoReport
    /\ cleanRuns = 0
    /\ runs = 0
    /\ posts = 0
    /\ postResp = NoResponse
    /\ last = NoWrite
    /\ InitBreakerVars
    /\ pager = IdlePager
    /\ api = NoApi
    /\ saver = IdleSaver
    /\ syncers = IdleSyncers
    /\ mongo = NoMongo

NextConnect ==
    \/ GetMongoDbCalls
    \/ ConnectResolves
    \/ ConnectRejects
    \/ CallerReturns

SpecConnect == InitConnect /\ [][NextConnect]_vars

(***************************************************************************)
(* Calls of safeFetch to two destinations.                                 *)
(***************************************************************************)
InitKeys ==
    /\ now = 0
    /\ InitSyncVars
    /\ ledger = 0
    /\ circuitBreakers = NoBreakers
    /\ inflight = {}
    /\ outcome = NoResult
    /\ hist = NoKeyHist
    /\ pager = IdlePager
    /\ api = NoApi
    /\ saver = IdleSaver
    /\ syncers = IdleSyncers
    /\ mongo = NoMongo

NextKeys ==
    \/ KeyBegins
    \/ FetchResponds
    \/ FetchFails
    \/ KeysReset
    \/ KeyTick

SpecKeys == InitKeys /\ [][NextKeys]_vars

(***************************************************************************)
(* Claims about the mirror (SpecSync).                                     *)
(***************************************************************************)
\* the $set fields of a stored document
FieldsOf(d) ==
    [messageId |-> d.messageId, sender |-> d.sender, content |-> d.content,
     timestamp |-> d.timestamp, transactionHash |-> d.transactionHash,
     createdAt |-> d.createdAt]

\* what the mirror must hold for ledger message i, written out
MirrorOf(i) ==
    [messageId |-> i,
     sender |-> IF i % 2 = 0 THEN AliceLower ELSE BobLower,
     content |-> <<"h", "i">>,
     timestamp |-> 100 + (i \div 2)]

Mirrors(d, i) ==
    /\ d.messageId = MirrorOf(i).messageId
    /\ d.sender = MirrorOf(i).sender
    /\ d.content = MirrorOf(i).content
    /\ d.timestamp = MirrorOf(i).timestamp

\* C1: whatever saves (POST /api/messages) and batch upserts were applied, no
\* two documents share a messageId; after a save the collection holds exactly
\* one document of that messageId, with the fields just applied, and the save
\* was answered 200 also when the messageId was already stored; after a batch
\* upsert it holds exactly one document for each record of the batch, with
\* that record's values.
C1_UpsertIdempotent ==
    /\ \A d1, d2 \in store : d1.messageId = d2.messageId => d1 = d2
    /\ last.op = "post" =>
          /\ last.status = 200
          /\ Cardinality(Matching(store, last.set.messageId)) = 1
          /\ \A d \in Matching(store, last.set.messageId) : FieldsOf(d) = last.set
    /\ last.op = "batch" =>
          \A i \in last.start .. (last.start + last.count - 1) :
             /\ Cardinality(Matching(store, i)) = 1
             /\ \A d \in Matching(store, i) :
                   Mirrors(d, i) /\ d.createdAt = MirrorOf(i).timestamp * 1000

\* C1 witness: a record saved a second time, leaving the document as it was
C1_Witness ==
    /\ last.op = "post"
    /\ last.existed
    /\ last.unchanged
    /\ Cardinality(store) >= 1

\* C2: a sync run that went through all its batches, with no save landing
\* while it ran, leaves exactly one document for every ledger index below the
\* count it read, holding that record's messageId, lowercased sender, content
\* and timestamp - whatever the collection held before.
C2_SyncAgrees ==
    (sync.pc = "done" /\ report.total >= 0 /\ ~sync.dirty) =>
        \A i \in 0 .. (report.total - 1) :
           /\ Cardinality(Matching(store, i)) = 1
           /\ \A d \in Matching(store, i) : Mirrors(d, i)

\* C2 witness: a two-batch run completed over a collection that already held
\* a saved record (which it rewrote) or an aborted run's documents
C2_Witness ==
    /\ sync.pc = "done"
    /\ ~sync.dirty
    /\ report.total > BATCH_SIZE
    /\ report.updated > 0
    /\ report.unchanged > 0

\* C3: a completed run that follows a completed run, with no save and no new
\* ledger message since that one started, reports inserted = 0 and
\* unchanged = N.
C3_ResyncConverges ==
    report.afterClean => (report.inserted = 0 /\ report.unchanged = report.total)

\* C3 witness: the second of two such runs, over two batches
C3_Witness ==
    /\ report.afterClean
    /\ report.total > BATCH_SIZE
    /\ sync.pc = "done"


(***************************************************************************)
(* Claims about the circuit breaker (SpecBreaker).                         *)
(***************************************************************************)
\* the state of url's breaker (a missing entry is created closed)
Breaker(url) == getCircuitBreaker(circuitBreakers, url)[url]

\* url's breaker is open and its cool-down has not elapsed
Cooling(url) ==
    /\ Breaker(url).isOpen
    /\ now - Breaker(url).lastFailureTime <= CIRCUIT_BREAKER_TIMEOUT

\* the calls whose fetch settles in this step
Settled == inflight \ inflight'

\* the calls sent to the network in this step
Sent == inflight' \ inflight

\* the primed copy of Breaker(url)
BreakerAfter(url) == getCircuitBreaker(circuitBreakers', url)[url]

\* the last safeFetch event was a 2xx response from url
Succeeded(url) ==
    outcome.url = url /\ outcome.kind = "response" /\ ResponseOk(outcome.status)

\* C4: 3 recorded failures of a URL with neither a successful call nor a
\* cool-down reset between them leave its breaker open; right after a 2xx
\* response the count is 0 and the breaker closed; an open breaker has seen at
\* least 3 recorded failures since the last successful call.
C4_OpensAtThreshold ==
    \A url \in Urls :
        /\ hist[url].run >= CIRCUIT_BREAKER_THRESHOLD => Breaker(url).isOpen
        /\ Succeeded(url) => Breaker(url).failures = 0 /\ ~Breaker(url).isOpen
        /\ Breaker(url).isOpen => hist[url].failed >= CIRCUIT_BREAKER_THRESHOLD

\* C4 as stated: right after a call ends in the third (or later) recorded
\* failure since the last successful call, the breaker is open.
C4_AsStated ==
    \A url \in Urls :
        /\ (outcome.url = url /\ outcome.recorded
              /\ hist[url].failed >= CIRCUIT_BREAKER_THRESHOLD) => Breaker(url).isOpen
        /\ Succeeded(url) => Breaker(url).failures = 0 /\ ~Breaker(url).isOpen
        /\ Breaker(url).isOpen => hist[url].failed >= CIRCUIT_BREAKER_THRESHOLD

C4_Witness ==
    \E url \in Urls :
        /\ outcome.url = url /\ outcome.recorded
        /\ hist[url].run = CIRCUIT_BREAKER_THRESHOLD
        /\ Breaker(url).failures = CIRCUIT_BREAKER_THRESHOLD
        /\ Breaker(url).isOpen

\* C5: while a URL's open flag is set and no more than 60 s have passed since
\* its last recorded failure, no call to it is sent to the network, and a call
\* made then gets the circuit-open error and changes nothing else.
C5_OpenBlocks ==
    [][\A url \in Urls :
          Cooling(url) =>
              /\ \A c \in Sent : c.url # url
              /\ Begin(url) => /\ outcome' = CircuitOpen(url)
                               /\ UNCHANGED <<circuitBreakers, inflight, hist>>]_vars

\* C5 as stated: from the opening of the breaker until 60 s have passed since
\* its last recorded failure, no call to the URL is sent to the network.
C5_AsStated ==
    \A url \in Urls :
        ~(/\ outcome = Pending(url)
          /\ hist[url].opened
          /\ now - Breaker(url).lastFailureTime <= CIRCUIT_BREAKER_TIMEOUT)

C5_Witness ==
    \E url \in Urls :
        /\ outcome = CircuitOpen(url)
        /\ Breaker(url).isOpen
        /\ now - Breaker(url).lastFailureTime = CIRCUIT_BREAKER_TIMEOUT

\* C6: once the cool-down has elapsed on an open breaker, a call to the URL is
\* not short-circuited: it is sent, and the breaker is closed with count 0
\* from then on (so are later calls, sent while it is in flight); right after
\* that call gets a 2xx response the breaker is closed and the count is 0.
C6_CoolDownResets ==
    /\ [][\A url \in Urls :
            (Breaker(url).isOpen /\ ~Cooling(url)) =>
                /\ ~(outcome' # outcome /\ outcome' = CircuitOpen(url))
                /\ \A c \in Sent :
                      c.url = url => /\ c.probe
                                     /\ BreakerAfter(url).failures = 0
                                     /\ ~BreakerAfter(url).isOpen]_vars
    /\ [](\A url \in Urls :
            (Succeeded(url) /\ outcome.probe) =>
                Breaker(url).failures = 0 /\ ~Breaker(url).isOpen)
    /\ [](\A c \in inflight :
            (c.probe /\ hist[c.url].run = 0) => ~Breaker(c.url).isOpen)

\* C6 as stated: no call to the URL is sent while the probe is in flight, and
\* right after the probe succeeds the breaker is closed with count 0.
C6_AsStated ==
    /\ \A c1, c2 \in inflight :
          ~(c1 # c2 /\ c1.url = c2.url /\ c1.probe /\ c2.start >= c1.start)
    /\ \A url \in Urls :
          (Succeeded(url) /\ outcome.probe) =>
              Breaker(url).failures = 0 /\ ~Breaker(url).isOpen

C6_Witness ==
    \E url \in Urls :
        /\ Succeeded(url) /\ outcome.probe
        /\ hist[url].failed = 0
        /\ now > CIRCUIT_BREAKER_TIMEOUT
        /\ ~Breaker(url).isOpen

\* C7: when the call let through after the cool-down ends in a recorded
\* failure, the count goes up by one and the last-failure time becomes the
\* present, and the breaker is open afterwards only if the count has reached
\* the threshold again.
C7_ProbeFailureCounts ==
    [][\A c \in Settled :
          (c.probe /\ outcome'.recorded) =>
              /\ BreakerAfter(c.url).failures = Breaker(c.url).failures + 1
              /\ BreakerAfter(c.url).lastFailureTime = now
              /\ BreakerAfter(c.url).isOpen
                     <=> BreakerAfter(c.url).failures >= CIRCUIT_BREAKER_THRESHOLD]_vars

\* C7 as stated: right after the probe ends in a recorded failure the breaker
\* is open.
C7_AsStated ==
    \A url \in Urls :
        (outcome.url = url /\ outcome.probe /\ outcome.recorded) => Breaker(url).isOpen

C7_Witness ==
    \E url \in Urls :
        /\ outcome.url = url /\ outcome.probe /\ outcome.recorded
        /\ Breaker(url).failures = 1
        /\ Breaker(url).lastFailureTime = now
        /\ ~Breaker(url).isOpen

\* C8: a call that reaches the 10-second timeout is recorded as a failure of
\* its URL: the count goes up by one and the last-failure time is set.
C8_TimeoutRecorded ==
    [][\A c \in Settled :
          (outcome'.kind = "throw" /\ outcome'.name \in TimeoutNames) =>
              /\ BreakerAfter(c.url).failures = Breaker(c.url).failures + 1
              /\ BreakerAfter(c.url).lastFailureTime = now]_vars

\* C9: a 4xx response leaves the map of breakers as it was and is what the
\* caller of safeFetch gets.
C9_ClientErrorIgnored ==
    [][\A c \in Settled :
          \A status \in {s \in Statuses : s >= 400 /\ s <= 499} :
              Respond(c, status) =>
                  /\ circuitBreakers' = circuitBreakers
                  /\ outcome' = Returned(c, status, FALSE)]_vars

C9_Witness ==
    \E url \in Urls :
        /\ outcome.url = url /\ outcome.kind = "response" /\ outcome.status = 404
        /\ Breaker(url).failures = 2
        /\ ~Breaker(url).isOpen

(***************************************************************************)
(* Claims about paging (SpecPage).                                         *)
(***************************************************************************)
\* the stored documents of the address that getAllMessages was called with
Listed == BySender(store, ToLowerCase(pager.address))

\* C10: when getAllMessages has read pages 1..totalPages of a fixed store
\* with a limit L in [1,100] and no storage fault, totalPages is the least n
\* with n * L >= T, and the pages together are the sender's T documents, each
\* once, in descending order of timestamp.
C10_PagesCoverStore ==
    (pager.pc \in {"last", "done"} /\ ~pager.faulted) =>
        /\ pager.total = Cardinality(Listed)
        /\ pager.totalPages * pager.limit >= Cardinality(Listed)
        /\ (pager.totalPages - 1) * pager.limit < Cardinality(Listed)
        /\ Len(pager.allMessages) = Cardinality(Listed)
        /\ {pager.allMessages[i] : i \in 1..Len(pager.allMessages)} = Listed
        /\ \A i, j \in 1..Len(pager.allMessages) :
              i < j => pager.allMessages[i].timestamp >= pager.allMessages[j].timestamp

(***************************************************************************)
(* Claims about the endpoints (SpecApi).                                   *)
(***************************************************************************)
\* spellings of Bob's address, and the documents stored for him
BobSpellings == {BobUpper, BobMixed, BobLower}
BobsDocs == {d \in store : d.sender = BobLower}

\* C11: on a store that does not change between them, a successful count
\* request and a successful list request for any spelling of a sender's
\* address report the number of stored documents whose sender is the
\* lowercased address, the one as messageCount, the other as pagination.total.
C11_CountIsTotal ==
    (api.endpoint = "messages" /\ api.resp.success /\ api.q.address \in BobSpellings) =>
        IF api.q.count
        THEN "messageCount" \in api.resp.fields
                /\ api.resp.messageCount = Cardinality(BobsDocs)
        ELSE "pagination" \in api.resp.fields
                /\ api.resp.pagination.total = Cardinality(BobsDocs)

C11_Witness ==
    /\ api.endpoint = "messages" /\ api.resp.success
    /\ api.q.address = BobMixed /\ ~api.q.count /\ api.q.page = 1
    /\ api.resp.pagination.total = 2
    /\ Cardinality(BobsDocs) = 2

\* address strings that are not "0x" and 40 hexadecimal digits
BadAddresses == {ShortAddress, NotAnAddress, UpperPrefix, TrailingSpace, <<>>}

\* C12: a request whose address (GET /api/messages, GET /api/totalmsg) or
\* sender string (POST /api/messages) is not "0x" and 40 hexadecimal digits
\* is answered 400 with success=false, and getMongoDb is not called for it.
C12_BadAddressRejected ==
    /\ (api.endpoint \in {"messages", "totalmsg"} /\ api.q.address \in BadAddresses) =>
           api.resp.status = 400 /\ ~api.resp.success /\ ~api.resp.storage
    /\ (api.endpoint = "post" /\ api.q.kind = "object" /\ api.q.sender.t = "string"
           /\ api.q.sender.s \in BadAddresses) =>
           postResp.status = 400 /\ ~postResp.success /\ ~postResp.storage

C12_Witness ==
    /\ api.endpoint = "post" /\ api.q.kind = "object"
    /\ api.q.sender = Str(NotAnAddress)
    /\ ~Falsy(api.q.messageId) /\ ~Falsy(api.q.content) /\ ~Falsy(api.q.timestamp)
    /\ postResp.status = 400 /\ ~postResp.storage
    /\ posts > 0

\* the request reaches the storage layer: its parameters are valid
ValidRead ==
    /\ api.endpoint \in {"messages", "totalmsg"}
    /\ api.q.address \in BobSpellings
    /\ api.endpoint = "messages" =>
           api.q.page >= 1 /\ api.q.limit >= 1 /\ api.q.limit <= 100

Saved(met) == ~met.thrown /\ met.status >= 200 /\ met.status <= 299 /\ met.success

Attempts == Len(saver.outcomes)

\* C15: saveToDatabase makes at most 3 attempts; it returns true at the first
\* attempt answered with an HTTP success status and success=true; after any
\* other outcome it goes on while attempts remain; it returns false only
\* after 3 failed attempts.
C15_RetryUntilSaved ==
    /\ Attempts <= 3
    /\ saver.result = "true" =>
           /\ Attempts >= 1 /\ Saved(saver.outcomes[Attempts])
           /\ \A k \in 1..(Attempts - 1) : ~Saved(saver.outcomes[k])
    /\ saver.result = "false" =>
           Attempts = 3 /\ \A k \in 1..3 : ~Saved(saver.outcomes[k])
    /\ saver.result = "none" => \A k \in 1..Attempts : ~Saved(saver.outcomes[k])
    /\ (saver.pc = "done") = (saver.result # "none")

C15_Witness ==
    /\ saver.result = "true" /\ Attempts = 3
    /\ saver.outcomes[1].thrown /\ saver.outcomes[2].status = 503
    /\ \E d \in store : d.messageId = saver.body.messageId.n

Counted(met) == met.thrown \/ met.status >= 500

\* C17 as stated: no attempt is made while the breaker of the path is open
\* and cooling, and a failed attempt (5xx, network error) is recorded as a
\* failure of the breaker.
C17_AsStated ==
    /\ Cooling(SaveUrl) => Attempts = 0
    /\ (\E k \in 1..Attempts : Counted(saver.outcomes[k])) => Breaker(SaveUrl).failures >= 1

\* C17: no attempt of the retry goes through the circuit breaker: an attempt
\* is made even while the breaker of the path is open and cooling, and no
\* attempt, failed or not, changes a breaker.
C17_SaveBypassesBreaker ==
    /\ [](saver.result # "none" => Attempts >= 1 /\ saver.outcomes[1].status \in {0, 200, 409, 502, 503})
    /\ [][circuitBreakers' = circuitBreakers]_vars

C17_Witness ==
    /\ Cooling(SaveUrl)
    /\ saver.result = "false"
    /\ \E k \in 1..Attempts : saver.outcomes[k].status = 503
    /\ Breaker(SaveUrl).failures = 3 /\ Breaker(SaveUrl).lastFailureTime = 0

(***************************************************************************)
(* Claims about a run of the sync script that fails.                       *)
(***************************************************************************)
\* the batch at sync.start fails in this step: getMessages or bulkWrite throws
BatchFails == sync.pc = "batch" /\ sync'.pc = "failed"

\* the loop leaves the batch at sync.start for the next one, or for the summary
BatchPassed == sync.pc = "batch" /\ sync'.pc \in {"batch", "summary"} /\ sync'.start > sync.start

\* the messageIds of the batch at sync.start
BatchIds == sync.start .. (Min(sync.start + BATCH_SIZE, sync.messageCount) - 1)

\* the documents the earlier batches of the run have written
EarlierDocs == {d \in store : d.messageId < sync.start}

\* C19: when getMessages or bulkWrite fails for a batch the run stops there:
\* it fetches and writes no later batch, the documents of the earlier batches
\* stay as they are, and the run ends failed, without the report of a
\* completed sync.
C19_FailedBatchAborts ==
    /\ [](sync.pc = "failed" => report = NoReport)
    /\ [][BatchPassed => \A i \in BatchIds : \E d \in store' : d.messageId = i]_vars
    /\ [][BatchFails => sync'.start = sync.start /\ EarlierDocs \subseteq store']_vars
    /\ [][sync.pc = "failed" =>
             /\ sync'.pc \in {"failed", "idle"}
             /\ sync'.start = sync.start
             /\ report' = NoReport
             /\ last' # last => last'.op # "batch"]_vars

C19_Witness ==
    /\ sync.pc = "failed" /\ sync.start = BATCH_SIZE
    /\ sync.messageCount > BATCH_SIZE
    /\ \A i \in 0..(BATCH_SIZE - 1) : \E d \in store : d.messageId = i /\ d.content = LedgerRecord(i).content
    /\ report = NoReport

(***************************************************************************)
(* Claims about two runs of the sync script at once.                       *)
(***************************************************************************)
\* C18: however two runs of the sync script interleave, neither fails, and
\* once both are done the store holds exactly one document for each
\* messageId of the ledger, with the ledger's content.
C18_ConcurrentRunsSafe ==
    /\ \A r \in Syncers : syncers.run[r].pc # "failed"
    /\ (\A r \in Syncers : syncers.run[r].pc = "done") =>
           \A i \in 0..(ledger - 1) :
              /\ Cardinality(Matching(store, i)) = 1
              /\ \A d \in Matching(store, i) :
                    /\ d.content = LedgerRecord(i).content
                    /\ d.sender = ToLowerCase(LedgerRecord(i).sender)
                    /\ d.timestamp = LedgerRecord(i).timestamp

(***************************************************************************)
(* Claims about safeFetch calls to the read endpoints.                     *)
(***************************************************************************)
\* C20: while the server is reachable and only its database fails, the
\* breaker of a read endpoint never opens: every call gets HTTP 200, is
\* recorded as a success and leaves the failure count at 0.
C20_DbFailureKeepsClosed ==
    /\ [](\A u \in ReadUrls : ~Breaker(u).isOpen)
    /\ [][\A c \in Settled :
             /\ outcome'.kind = "response" /\ outcome'.status = 200
             /\ BreakerAfter(c.url).failures = 0
             /\ ~BreakerAfter(c.url).isOpen]_vars

(***************************************************************************)
(* Claims about what the callers of safeFetch and safeFetchJSON see.       *)
(***************************************************************************)
\* what the caller of safeFetch has in hand: a response with its status, or
\* an error with its name
Seen(o) == [kind |-> o.kind, status |-> o.status, name |-> o.name]

AnyCall == [id |-> 1, url |-> "/api/users", start |-> 0, probe |-> FALSE]

\* the outcomes of a call that was sent and failed at the destination
DestinationFailures ==
    {Returned(AnyCall, status, FALSE) : status \in {s \in Statuses \cup {503} : s >= 400}}
    \cup {Thrown(AnyCall, name, FALSE) : name \in {"TypeError"} \cup TimeoutNames}

\* this step is a safeFetch call that ends at once, with nothing sent
ShortCircuited ==
    /\ Sent = {} /\ Settled = {}
    /\ outcome' # outcome /\ outcome'.kind = "throw"

\* C21 as stated: at safeFetch and at safeFetchJSON alike, what a
\* short-circuited call gives its caller differs from what a call that
\* failed at the destination gives.
C21_AsStated ==
    [][ShortCircuited =>
          \A f \in DestinationFailures :
             /\ Seen(outcome') # Seen(f)
             /\ safeFetchJSON(outcome', TRUE) # safeFetchJSON(f, TRUE)]_vars

\* C21: at safeFetch what a short-circuited call throws differs from every
\* response or error of a call that failed at the destination; at
\* safeFetchJSON both give null.
C21_ShortCircuitTold ==
    [][ShortCircuited =>
          \A f \in DestinationFailures :
             /\ Seen(outcome') # Seen(f)
             /\ safeFetchJSON(outcome', TRUE) = Null
             /\ safeFetchJSON(f, TRUE) = Null]_vars

C21_Witness ==
    /\ outcome.kind = "throw" /\ outcome.name = "CircuitOpen"
    /\ Cooling(outcome.url)
    /\ inflight = {}
    /\ safeFetchJSON(outcome, TRUE) = Null

(***************************************************************************)
(* Claims about the query string of GET /api/messages.                     *)
(***************************************************************************)
\* raw, when given, spells an integer between lo and hi
SpellsIntegerIn(raw, lo, hi) ==
    /\ raw.s # <<>>
    /\ \A k \in 1..Len(raw.s) : IsDigit(raw.s[k]) \/ (k = 1 /\ raw.s[k] = "-" /\ Len(raw.s) > 1)
    /\ ParseInt(raw.s).n >= lo /\ ParseInt(raw.s).n <= hi

\* C22: a request whose page parameter is not an integer >= 1, or whose
\* limit parameter is not an integer in [1,100], values that do not parse to
\* a number included, is answered 400 and the handler does not reach storage.
C22_BadPagingRejected ==
    /\ api.endpoint = "messages" /\ MatchesAddress(api.q.address)
    /\ \/ ~Falsy(api.q.page) /\ ~SpellsIntegerIn(api.q.page, 1, MAX_LIMIT * MAX_LIMIT)
       \/ ~Falsy(api.q.limit) /\ ~SpellsIntegerIn(api.q.limit, 1, MAX_LIMIT)
    => api.resp.status = 400 /\ ~api.resp.storage

(***************************************************************************)
(* Claims about what an upsert leaves of the stored document.              *)
(***************************************************************************)
\* the sync script ends its turn at a batch in this step
BatchTurn == sync.pc = "batch" /\ (sync'.pc # "batch" \/ sync'.start # sync.start)

\* the messageIds the last bulk write wrote, as of the next state
WrittenIds == last'.start .. (last'.start + last'.count - 1)

\* C23 as stated: after a batch upsert the document holds exactly the fields
\* mapped from the ledger record, nothing of an earlier save; after a save it
\* holds exactly the saved record's fields.
C23_AsStated ==
    /\ last.op = "batch" =>
          \A i \in last.start .. (last.start + last.count - 1) :
             \A d \in Matching(store, i) : FieldsOf(d) = SyncDoc(LedgerRecord(i))
    /\ last.op = "post" =>
          \A d \in Matching(store, last.set.messageId) : FieldsOf(d) = last.set

\* C23: an upsert sets the fields of its record and leaves the rest of the
\* stored document: after a batch upsert the document has the messageId,
\* sender, content, timestamp and createdAt mapped from the ledger record and
\* the transactionHash it had before (none when it is new); after a save it
\* holds exactly the saved record's fields.
C23_UpsertSetsFields ==
    /\ [](last.op = "post" =>
            \A d \in Matching(store, last.set.messageId) :
               /\ FieldsOf(d) = last.set
               /\ d.transactionHash # Absent)
    /\ [][BatchTurn /\ last'.op = "batch" =>
            \A i \in WrittenIds : \A e \in Matching(store', i) :
               /\ Mirrors(e, i) /\ e.createdAt = MirrorOf(i).timestamp * 1000
               /\ \A d \in Matching(store, i) :
                     e.transactionHash = d.transactionHash /\ e.oid = d.oid
               /\ Matching(store, i) = {} => e.transactionHash = Absent]_vars

C23_Witness ==
    /\ last.op = "batch" /\ last.start = 0 /\ last.count = BATCH_SIZE
    /\ \E d \in Matching(store, 1) :
          /\ d.transactionHash = AliceBody.transactionHash
          /\ d.sender = BobLower /\ d.content = <<"h", "i">>

(***************************************************************************)
(* Claims about the batches of a run of the sync script.                   *)
(***************************************************************************)
\* C24: for a ledger of N > 0 messages the script reads start = 0, 50, 100,
\* ... in ascending order, count = min(50, N - start) each time, so that the
\* ranges cover [0, N) once each in ceil(N/50) reads; for N = 0 it ends with
\* no read of a batch and no access to the store.
C24_BatchesPartitionLedger ==
    /\ [](sync.pc \in {"connect", "batch", "summary"} => sync.messageCount > 0)
    /\ [](sync.pc = "batch" => sync.start < sync.messageCount /\ sync.start % 50 = 0)
    /\ [](sync.pc = "summary" =>
            /\ sync.start >= sync.messageCount
            /\ sync.start = 50 * ((sync.messageCount + 49) \div 50))
    /\ [][sync.pc = "idle" /\ sync'.pc # "idle" /\ ledger = 0 =>
            sync'.pc \in {"done", "failed"} /\ store' = store]_vars
    /\ [][sync.pc = "connect" /\ sync'.pc = "batch" => sync'.start = 0]_vars
    /\ [][BatchPassed =>
            /\ sync'.start = sync.start + 50
            /\ last'.op = "batch" /\ last'.start = sync.start
            /\ last'.count = (IF sync.messageCount - sync.start < 50
                              THEN sync.messageCount - sync.start ELSE 50)]_vars

C24_Witness ==
    /\ sync.pc = "summary" /\ sync.messageCount = BATCH_SIZE + 1
    /\ sync.start = 2 * BATCH_SIZE
    /\ last.op = "batch" /\ last.start = BATCH_SIZE /\ last.count = 1

(***************************************************************************)
(* Claims about the validation of POST /api/messages.                      *)
(***************************************************************************)
\* a record as the spec asks for it: messageId an integer, sender shaped as
\* an address, content not empty once trimmed, timestamp a positive integer
WellFormed(body) ==
    /\ body.kind = "object"
    /\ body.messageId.t = "number"
    /\ body.sender.t = "string" /\ MatchesAddress(body.sender.s)
    /\ body.content.t = "string" /\ Len(Trim(body.content.s)) > 0
    /\ body.timestamp.t = "number" /\ body.timestamp.n > 0

\* C25: a well-formed record, messageId 0 included, is not rejected as
\* invalid; when the database accepts the write it is stored with the sender
\* lowercased and the content trimmed.
C25_WellFormedAccepted ==
    api.endpoint = "post" /\ WellFormed(api.q) =>
        /\ postResp.status # 400
        /\ api.fault = "none" =>
               /\ postResp.status = 200 /\ postResp.success
               /\ \E d \in store :
                     /\ d.messageId = api.q.messageId.n
                     /\ d.sender = ToLowerCase(api.q.sender.s)
                     /\ d.content = Trim(api.q.content.s)
                     /\ d.timestamp = api.q.timestamp.n

\* a body that is not a JSON object, or lacks a required field, or has one of
\* another type than the record's
Malformed(body) ==
    \/ body.kind # "object"
    \/ body.messageId.t # "number"
    \/ body.sender.t # "string"
    \/ body.content.t # "string"
    \/ body.timestamp.t # "number"

\* C26: a malformed body is answered 400, never 5xx, and the handler does
\* not reach storage for it.
C26_MalformedIsRejected ==
    api.endpoint = "post" /\ Malformed(api.q) =>
        postResp.status = 400 /\ ~postResp.storage

\* the clients getMongoDb constructed whose connect() did not fail
LiveClients == (1..mongo.clients) \ mongo.failed

\* C27: the process constructs at most one MongoClient that connects, all
\* callers that were given a Db were given the same one, and a client whose
\* connect() failed is never the cached one.
C27_OneClientOneDb ==
    /\ Cardinality(LiveClients) <= 1
    /\ \A c, d \in Callers :
          mongo.call[c].pc = "returned" /\ mongo.call[d].pc = "returned" =>
              mongo.call[c].db = mongo.call[d].db
    /\ mongo.cachedClient \notin mongo.failed


\* C28: for every url that has a breaker, the count of failures is never
\* negative and the circuit is open exactly when the count has reached the
\* threshold.
C28_OpenIffThreshold ==
    \A u \in DOMAIN circuitBreakers :
        /\ circuitBreakers[u].failures >= 0
        /\ circuitBreakers[u].isOpen <=>
               circuitBreakers[u].failures >= CIRCUIT_BREAKER_THRESHOLD

\* a circuit that opened and then recorded the failure of a call that was
\* already in flight
C28_Witness ==
    \E u \in DOMAIN circuitBreakers :
        /\ circuitBreakers[u].isOpen
        /\ circuitBreakers[u].failures > CIRCUIT_BREAKER_THRESHOLD


\* the breaker the map holds for url, if any
Entry(breakers, url) == IF url \in DOMAIN breakers THEN {breakers[url]} ELSE {}

\* the step is one of safeFetch(url): the call starts or is short-circuited,
\* or its fetch settles
SafeFetchStep(url) ==
    /\ outcome'.url = url
    /\ \/ \E c \in Sent : c.url = url
       \/ \E c \in Settled : c.url = url
       \/ Sent = {} /\ Settled = {} /\ outcome'.kind = "throw" /\ outcome'.name = "CircuitOpen"

\* C29: a step of safeFetch for one url leaves the breaker of every other
\* url as it was (its failures, its last-failure time, its open flag, and
\* whether it exists), also when the two urls differ only in their query
\* string; resetCircuitBreakers empties the whole map.
C29_KeysIsolated ==
    [][/\ \A a \in KeyUrls : SafeFetchStep(a) =>
               \A b \in KeyUrls \ {a} :
                   Entry(circuitBreakers', b) = Entry(circuitBreakers, b)
       /\ (outcome' = NoResult /\ outcome # NoResult) => circuitBreakers' = NoBreakers]_vars

\* one destination's circuit is open with its failures counted while the
\* other, of the same path, has a breaker that counted none
C29_Witness ==
    /\ "/api/users?address=0xa" \in DOMAIN circuitBreakers
    /\ "/api/users?address=0xb" \in DOMAIN circuitBreakers
    /\ circuitBreakers["/api/users?address=0xa"].isOpen
    /\ circuitBreakers["/api/users?address=0xa"].failures >= CIRCUIT_BREAKER_THRESHOLD
    /\ circuitBreakers["/api/users?address=0xb"].failures = 0
    /\ ~circuitBreakers["/api/users?address=0xb"].isOpen
    /\ outcome.url = "/api/users?address=0xb"
    /\ outcome.kind = "response"


\* the request getMessageCount sends: count mode, no page and no limit
CountRequest ==
    /\ api.endpoint = "messages"
    /\ api.q.count
    /\ api.q.page = 1
    /\ api.q.limit = 20

\* C30: getMessageCount reports success only for a response the server
\* marked successful, with the number of the sender's documents; hasMessages
\* is false for a sender only if getMessageCount failed or that number is 0.
C30_SuccessOnlyWhenCounted ==
    CountRequest =>
        LET result == getMessageCount(api.q.address, api.resp)
            counted == Cardinality(BySender(store, ToLowerCase(api.q.address)))
        IN  /\ result.success =>
                  /\ api.resp.success
                  /\ result.data.messageCount = counted
            /\ result.success /\ ~hasMessages(result) => counted = 0

====
